---- MODULE Spec2Model ----
(***************************************************************************)
(* Copilot-Monitoring: the mitmproxy addon CopilotLogger                   *)
(* (src/backend/copilot_logger.py) and the hand-off of its records to the  *)
(* live feed (src/backend/main.py).                                        *)
(*                                                                         *)
(* Text is a sequence of characters, a character is a one-character        *)
(* string; bytes are sequences too: an ASCII byte is written as its        *)
(* character, the other bytes as "xHH".  A JSON value is held the way      *)
(* Python holds it after json.loads: None, int, str, list, dict (a dict    *)
(* keeps the insertion order of its keys).                                 *)
(***************************************************************************)
EXTENDS Integers, Sequences, FiniteSets, TLC

(***************************************************************************)
(* Python values                                                           *)
(***************************************************************************)
JNull == [k |-> "null"]
JNum(n) == [k |-> "num", n |-> n]
JStr(s) == [k |-> "str", s |-> s]
JList(l) == [k |-> "list", l |-> l]
JDict(keys, map) == [k |-> "dict", keys |-> keys, d |-> map]
\* a quotient of two ints (Python's true division), kept exact
JFrac(a, b) == [k |-> "frac", num |-> a, den |-> b]

EmptyDict == JDict(<<>>, [x \in {} |-> JNull])

\* the dict literal {k1: v1, k2: v2, ...} from its <<key, value>> pairs
D(pairs) ==
  JDict([i \in 1..Len(pairs) |-> pairs[i][1]],
        [x \in {pairs[i][1] : i \in 1..Len(pairs)} |->
            pairs[CHOOSE i \in 1..Len(pairs) : pairs[i][1] = x][2]])

IsNone(j) == j.k = "null"
IsDict(j) == j.k = "dict"
IsList(j) == j.k = "list"
IsStr(j) == j.k = "str"
IsNum(j) == j.k = "num"

\* bool(x)
Truthy(j) ==
  CASE j.k = "null" -> FALSE
    [] j.k = "num" -> j.n # 0
    [] j.k = "frac" -> j.num # 0
    [] j.k = "str" -> Len(j.s) > 0
    [] j.k = "list" -> Len(j.l) > 0
    [] j.k = "dict" -> Len(j.keys) > 0

\* key in d, d.get(key), d.get(key, default), d[key] = val, for a dict d
Has(j, key) == key \in DOMAIN j.d
Get(j, key) == IF Has(j, key) THEN j.d[key] ELSE JNull
GetOr(j, key, default) == IF Has(j, key) THEN j.d[key] ELSE default
Put(j, key, val) ==
  IF Has(j, key)
  THEN [j EXCEPT !.d[key] = val]
  ELSE JDict(Append(j.keys, key),
             [x \in DOMAIN j.d \cup {key} |-> IF x = key THEN val ELSE j.d[x]])

\* a.update(b): b's items in b's order
RECURSIVE UpdateFrom(_, _, _)
UpdateFrom(a, b, i) ==
  IF i > Len(b.keys) THEN a
  ELSE UpdateFrom(Put(a, b.keys[i], b.d[b.keys[i]]), b, i + 1)
Update(a, b) == UpdateFrom(a, b, 1)

\* a == b of same-kind values; values of different kinds are never equal
JEq(a, b) == a.k = b.k /\ a = b

(***************************************************************************)
(* Text                                                                    *)
(***************************************************************************)
KeyChars ==
  [
    choices |-> <<"c", "h", "o", "i", "c", "e", "s">>,
    usage |-> <<"u", "s", "a", "g", "e">>,
    delta |-> <<"d", "e", "l", "t", "a">>,
    text |-> <<"t", "e", "x", "t">>,
    role |-> <<"r", "o", "l", "e">>,
    content |-> <<"c", "o", "n", "t", "e", "n", "t">>,
    finish_reason |-> <<"f", "i", "n", "i", "s", "h", "_", "r", "e", "a", "s", "o", "n">>,
    model |-> <<"m", "o", "d", "e", "l">>,
    id |-> <<"i", "d">>,
    object |-> <<"o", "b", "j", "e", "c", "t">>,
    index |-> <<"i", "n", "d", "e", "x">>,
    message |-> <<"m", "e", "s", "s", "a", "g", "e">>,
    prompt_tokens |-> <<"p", "r", "o", "m", "p", "t", "_", "t", "o", "k", "e", "n", "s">>,
    completion_tokens |-> <<"c", "o", "m", "p", "l", "e", "t", "i", "o", "n", "_", "t", "o", "k", "e", "n", "s">>,
    reasoning_tokens |-> <<"r", "e", "a", "s", "o", "n", "i", "n", "g", "_", "t", "o", "k", "e", "n", "s">>,
    total_tokens |-> <<"t", "o", "t", "a", "l", "_", "t", "o", "k", "e", "n", "s">>,
    extra |-> <<"e", "x", "t", "r", "a">>,
    suffix_tokens |-> <<"s", "u", "f", "f", "i", "x", "_", "t", "o", "k", "e", "n", "s">>,
    messages |-> <<"m", "e", "s", "s", "a", "g", "e", "s">>,
    prompt |-> <<"p", "r", "o", "m", "p", "t">>,
    suffix |-> <<"s", "u", "f", "f", "i", "x">>,
    prediction |-> <<"p", "r", "e", "d", "i", "c", "t", "i", "o", "n">>,
    context |-> <<"c", "o", "n", "t", "e", "x", "t">>,
    error |-> <<"e", "r", "r", "o", "r">>,
    created |-> <<"c", "r", "e", "a", "t", "e", "d">>,
    ts_end |-> <<"t", "s", "_", "e", "n", "d">>
  ]

\* the concatenation of ss[lo..hi]
RECURSIVE Concat(_, _, _)
Concat(ss, lo, hi) ==
  IF lo > hi THEN <<>>
  ELSE IF lo = hi THEN ss[lo]
  ELSE LET mid == (lo + hi) \div 2
       IN  Concat(ss, lo, mid) \o Concat(ss, mid + 1, hi)
Flatten(ss) == Concat(ss, 1, Len(ss))

\* Python's str.strip() with no argument
Whitespace == {" ", "\t", "\r", "\n"}
Strip(s) ==
  LET keep == {i \in 1..Len(s) : s[i] \notin Whitespace}
  IN  IF keep = {} THEN <<>>
      ELSE SubSeq(s, CHOOSE i \in keep : \A j \in keep : i <= j,
                     CHOOSE i \in keep : \A j \in keep : j <= i)

\* s.startswith(p), p in s (substring), s[:n], s[n:]
StartsWith(s, p) == Len(s) >= Len(p) /\ SubSeq(s, 1, Len(p)) = p
Contains(s, p) == \E i \in 1..(Len(s) - Len(p) + 1) : SubSeq(s, i, i + Len(p) - 1) = p
Take(s, n) == SubSeq(s, 1, IF Len(s) < n THEN Len(s) ELSE n)
Drop(s, n) == SubSeq(s, n + 1, Len(s))

\* s.split(c) for a one-character separator: always at least one part
Split(s, c) ==
  LET at == {i \in 1..Len(s) : s[i] = c}
      \* the position of the n-th separator; 0 and Len(s) + 1 bound the text
      pos(n) == IF n = 0 THEN 0
                ELSE IF n > Cardinality(at) THEN Len(s) + 1
                ELSE CHOOSE i \in at : Cardinality({j \in at : j < i}) = n - 1
  IN  [n \in 1..(Cardinality(at) + 1) |-> SubSeq(s, pos(n - 1) + 1, pos(n) - 1)]

\* bytes.decode("utf-8", errors="replace").  The bytes outside ASCII are
\* xC3 (which opens a two-byte character), xA9 (which continues one: xC3 xA9
\* is U+00E9) and xFF (never valid).  A byte that does not decode becomes
\* U+FFFD.
Utf8Char(b, i) ==
  IF b[i] = "xC3" THEN (IF i < Len(b) /\ b[i + 1] = "xA9" THEN "U+00E9" ELSE "U+FFFD")
  ELSE IF b[i] = "xA9" THEN (IF i > 1 /\ b[i - 1] = "xC3" THEN "" ELSE "U+FFFD")
  ELSE IF b[i] = "xFF" THEN "U+FFFD"
  ELSE b[i]
Utf8Replace(b) == SelectSeq([i \in 1..Len(b) |-> Utf8Char(b, i)], LAMBDA c : c # "")

\* the bytes a strict UTF-8 decoder accepts
Utf8Valid(b) == \A i \in 1..Len(b) : Utf8Char(b, i) # "U+FFFD"

\* str.encode("utf-8")
Utf8Encode(s) ==
  Flatten([i \in 1..Len(s) |->
             CASE s[i] = "U+00E9" -> <<"xC3", "xA9">>
               [] s[i] = "U+FFFD" -> <<"xEF", "xBF", "xBD">>
               [] OTHER -> <<s[i]>>])

\* literals of the source and of the traffic
S_invalid_json == <<"i", "n", "v", "a", "l", "i", "d", " ", "j", "s", "o", "n">>
S_chat_aggregated == <<"c", "h", "a", "t", ".", "c", "o", "m", "p", "l", "e", "t", "i", "o", "n", ".", "a", "g", "g", "r", "e", "g", "a", "t", "e", "d">>
S_text_aggregated == <<"t", "e", "x", "t", "_", "c", "o", "m", "p", "l", "e", "t", "i", "o", "n", ".", "a", "g", "g", "r", "e", "g", "a", "t", "e", "d">>
S_unknown_aggregated == <<"u", "n", "k", "n", "o", "w", "n", ".", "a", "g", "g", "r", "e", "g", "a", "t", "e", "d">>
DataMarker == <<"d", "a", "t", "a", ":", " ">>
DoneSentinel == <<"[", "D", "O", "N", "E", "]">>
S_engines == <<"e", "n", "g", "i", "n", "e", "s">>
S_dots == <<".", ".", ".">>
S_gx == <<"g", "x">>
S_gy == <<"g", "y">>
S_bot == <<"b", "o", "t">>
S_user == <<"u", "s", "e", "r">>
S_Hi == <<"H", "i">>
S_stop == <<"s", "t", "o", "p">>
S_length == <<"l", "e", "n", "g", "t", "h">>
P_chat == <<"/", "c", "h", "a", "t", "/", "c", "o", "m", "p", "l", "e", "t", "i", "o", "n", "s">>
P_engines == <<"/", "v", "1", "/", "e", "n", "g", "i", "n", "e", "s", "/", "c", "x", "/", "c", "o", "m", "p", "l", "e", "t", "i", "o", "n", "s">>
P_engines_last == <<"/", "v", "1", "/", "e", "n", "g", "i", "n", "e", "s">>
B_notjson == <<"{", "n", "o">>
B_badutf8 == <<"{", "xFF">>

\* the compact JSON text of a value (strings need no escapes here)
DigitChar == <<"0", "1", "2", "3", "4", "5", "6", "7", "8", "9">>
RECURSIVE Digits(_)
Digits(n) ==
  IF n < 10 THEN <<DigitChar[n + 1]>>
  ELSE Digits(n \div 10) \o <<DigitChar[(n % 10) + 1]>>

RECURSIVE JsonText(_), JsonItems(_, _), JsonMembers(_, _)
JsonText(v) ==
  CASE v.k = "null" -> <<"n", "u", "l", "l">>
    [] v.k = "num" -> Digits(v.n)
    [] v.k = "str" -> <<"\"">> \o v.s \o <<"\"">>
    [] v.k = "list" -> <<"[">> \o JsonItems(v.l, 1) \o <<"]">>
    [] v.k = "dict" -> <<"{">> \o JsonMembers(v, 1) \o <<"}">>
JsonItems(l, i) ==
  IF i > Len(l) THEN <<>>
  ELSE (IF i > 1 THEN <<",">> ELSE <<>>) \o JsonText(l[i]) \o JsonItems(l, i + 1)
JsonMembers(v, i) ==
  IF i > Len(v.keys) THEN <<>>
  ELSE (IF i > 1 THEN <<",">> ELSE <<>>)
       \o <<"\"">> \o KeyChars[v.keys[i]] \o <<"\"", ":">>
       \o JsonText(v.d[v.keys[i]]) \o JsonMembers(v, i + 1)

(***************************************************************************)
(* src/backend/copilot_logger.py: settings                                 *)
(***************************************************************************)
ALLOWED_HOSTS ==
  {"api.githubcopilot.com", "api.individual.githubcopilot.com",
   "proxy.githubcopilot.com", "proxy.individual.githubcopilot.com"}
SAVE_BODIES == FALSE
SAVE_HEADERS == FALSE
TruncLen == 100
SentinelLen == 1000

(***************************************************************************)
(* The traffic the model is run on: JSON documents of requests, responses  *)
(* and stream fragments.                                                   *)
(***************************************************************************)
Absent == [k |-> "absent"]
O1(k1, v1) == D(<< <<k1, v1>> >>)
O2(k1, v1, k2, v2) == D(<< <<k1, v1>>, <<k2, v2>> >>)
O3(k1, v1, k2, v2, k3, v3) == D(<< <<k1, v1>>, <<k2, v2>>, <<k3, v3>> >>)
\* a dict literal in which an Absent value leaves its key out
DOpt(pairs) == D(SelectSeq(pairs, LAMBDA p : p[2].k # "absent"))

\* stream fragments
Fr_role == O2("model", JStr(S_gx), "choices", JList(<<O1("delta", O1("role", JStr(S_bot)))>>))
Fr_hi == O1("choices", JList(<<O1("delta", O1("content", JStr(S_Hi)))>>))
Fr_stop ==
  O1("choices", JList(<<O2("delta", O1("content", JStr(<<"!">>)),
                           "finish_reason", JStr(S_stop))>>))
Fr_text == O1("choices", JList(<<O1("text", JStr(<<"a", "b">>))>>))
Fr_usage ==
  O2("choices", JList(<<>>),
     "usage", O2("prompt_tokens", JNum(3), "completion_tokens", JNum(2)))
Fr_num == JNum(7)
Fr_nulldelta == O1("choices", JList(<<O1("delta", JNull)>>))
Fr_strchoice == O1("choices", JList(<<JStr(<<"x">>)>>))

FragValues ==
  {Fr_role, Fr_hi, Fr_stop, Fr_text, Fr_usage, Fr_num, Fr_nulldelta, Fr_strchoice}

\* fragments of streams in which the role and the finish_reason come more
\* than once, or as null
Fr_user ==
  O1("choices", JList(<<O1("delta", O2("role", JStr(S_user), "content", JStr(S_Hi)))>>))
Fr_length ==
  O1("choices", JList(<<O2("delta", O1("content", JStr(<<"?">>)),
                           "finish_reason", JStr(S_length))>>))
Fr_nulls ==
  O1("choices", JList(<<O2("delta", O2("role", JNull, "content", JStr(S_Hi)),
                           "finish_reason", JNull)>>))
Fr_textlength ==
  O1("choices", JList(<<O2("text", JStr(<<"c">>), "finish_reason", JStr(S_length))>>))
Fr_textstop ==
  O1("choices", JList(<<O2("text", JStr(<<"d">>), "finish_reason", JStr(S_stop))>>))
LatchFragValues ==
  {Fr_role, Fr_user, Fr_nulls, Fr_stop, Fr_length, Fr_textlength, Fr_textstop}

\* fragments of streams whose shape is decided late or not at all, and
\* whose fields and usage counters come in several fragments
Fr_mixed ==
  O1("choices", JList(<<O2("delta", O1("content", JStr(<<"x">>)), "text", JStr(<<"y">>))>>))
Fr_bare == O1("choices", JList(<<O1("index", JNum(0))>>))
Fr_emptychoice == O1("choices", JList(<<EmptyDict>>))
Fr_nullcontent == O1("choices", JList(<<O1("delta", O1("content", JNull))>>))
Fr_meta ==
  O3("id", JStr(<<"a">>), "object", JStr(<<"c">>),
     "usage", O2("prompt_tokens", JNum(3), "total_tokens", JNum(9)))
Fr_meta2 ==
  O2("id", JStr(<<"b">>),
     "usage", O2("completion_tokens", JNum(2), "total_tokens", JNum(5)))
AggFragValues ==
  {Fr_hi, Fr_text, Fr_mixed, Fr_bare, Fr_emptychoice, Fr_nullcontent, Fr_meta,
   Fr_meta2, Fr_num}

\* records of events.jsonl, as far as the analyzer orders them
Ev_early == O1("ts_end", JNum(12))
Ev_late == O1("ts_end", JNum(16))
Ev_nullend == O1("ts_end", JNull)
EventValues == {Ev_early, Ev_late, Ev_nullend}

\* request bodies
Rq_chat ==
  O2("model", JStr(S_gx),
     "messages", JList(<<O2("role", JStr(S_user), "content", JStr(S_Hi))>>))
Rq_fim ==
  O3("prompt", JStr(<<"a", "b">>), "suffix", JStr(<<"c">>),
     "extra", O2("prompt_tokens", JNum(3), "suffix_tokens", JNum(2)))
Rq_list == JList(<<JNum(1)>>)
Rq_emptylist == JList(<<>>)
RequestValues == {Rq_chat, Rq_fim, Rq_list, Rq_emptylist}

\* response bodies: a completion with an optional model and an optional usage
\* block whose counters are each stated, null or left out
UsageBlocks ==
  {DOpt(<< <<"prompt_tokens", p>>, <<"completion_tokens", c>>,
           <<"reasoning_tokens", r>>, <<"total_tokens", t>> >>) :
     p \in {Absent, JNum(3), JNull}, c \in {Absent, JNum(2), JNull},
     r \in {Absent, JNum(1)}, t \in {Absent, JNum(99)}}
Rs(m, u) ==
  DOpt(<< <<"model", m>>,
          <<"choices", JList(<<O1("text", JStr(<<"a", "b", "c", "d", "e", "f">>))>>)>>,
          <<"usage", u>> >>)
Rs_usage == {Rs(Absent, u) : u \in UsageBlocks \cup {Absent, JNull}}
Rs_model == {Rs(m, Absent) : m \in {JStr(S_gy), JStr(<<>>)}}
Rs_message ==
  O1("choices", JList(<<O1("message", O2("role", JStr(S_bot), "content", JStr(S_Hi)))>>))
Rs_nochoices == O1("choices", JList(<<>>))
Rs_nonobject == {JList(<<JNum(1)>>), JList(<<>>), JNum(0), JNull}
ResponseValues ==
  Rs_usage \cup Rs_model \cup {Rs_message, Rs_nochoices, EmptyDict} \cup Rs_nonobject

\* bodies for the summarizers: texts below, at and above the length they cut
\* at, and values of other types in their place
S_exact == [i \in 1..TruncLen |-> "b"]
S_long == [i \in 1..(TruncLen + 1) |-> "a"]

Rq_rich ==
  O3("messages",
       JList(<<O2("role", JStr(S_user), "content", JStr(S_long)), JNum(1),
               O1("content", JNull), O1("role", JStr(S_bot))>>),
     "prediction", O2("id", JNum(1), "content", JStr(S_Hi)),
     "extra", O2("context", JList(<<JStr(S_long), JStr(S_exact), JNum(1)>>),
                 "prompt_tokens", JNum(3)))
Rq_longprompt ==
  O3("prompt", JStr(S_long), "suffix", JStr(S_exact), "prediction", JStr(S_Hi))
Rq_odd ==
  O3("messages", JStr(S_Hi), "prompt", JNum(1), "extra", O1("context", JStr(S_long)))
Rs_rich ==
  O2("id", JNum(1),
     "choices",
       JList(<<O2("index", JNum(0), "message", O2("role", JStr(S_bot), "content", JStr(S_long))),
               O2("text", JStr(S_long), "finish_reason", JStr(S_stop)),
               JNum(1), O1("message", JNull), O2("text", JNum(1), "message", O1("role", JStr(S_bot)))>>))
Rs_oddchoices == O2("choices", JStr(S_Hi), "text", JStr(S_Hi))

SummaryRequestValues == {Rq_chat, Rq_fim, Rq_rich, Rq_longprompt, Rq_odd, EmptyDict}
SummaryResponseValues ==
  {Rs(Absent, Absent), Rs_message, Rs_rich, Rs_oddchoices, Rs_nochoices, EmptyDict}
\* json.loads on text: the documents above and nothing else are JSON
JsonVocab ==
  FragValues \cup RequestValues \cup ResponseValues
    \cup SummaryRequestValues \cup SummaryResponseValues \cup LatchFragValues
    \cup AggFragValues \cup EventValues
JsonPairs == {<<JsonText(v), v>> : v \in JsonVocab}
json_loads(text) ==
  IF \E p \in JsonPairs : p[1] = text
  THEN [ok |-> TRUE, value |-> (CHOOSE p \in JsonPairs : p[1] = text)[2]]
  ELSE [ok |-> FALSE]

(***************************************************************************)
(* src/backend/copilot_logger.py: helpers                                  *)
(***************************************************************************)
\* an exception that leaves the function it is raised in
Raised(e) == [k |-> "raise", exc |-> e]
IsRaise(j) == j.k = "raise"

_is_copilot_host(host) == host \in ALLOWED_HOSTS

\* content types are taken whole: the two tests below are substring tests
\* in the source ("text/event-stream" in ct.lower(), "application/json" in ct)
_looks_like_sse(ct) == ct \in {"text/event-stream", "Text/Event-Stream"}
declares_json(ct) == ct \in {"application/json", "application/json; charset=utf-8"}

_decode(b) == IF b = <<>> THEN <<>> ELSE Utf8Replace(b)

_safe_float(x) == x

\* line 50: the sentinel of a body that does not parse
InvalidJson(b) ==
  O2("error", JStr(S_invalid_json), "content", JStr(Take(_decode(b), SentinelLen)))

\* lines 47-50: json.loads gave r
Parsed(r, b) == IF r.ok THEN r.value ELSE InvalidJson(b)

\* lines 44-50; json.loads(b) on bytes decodes them strictly before it parses
_safe_json(b) ==
  IF b = <<>> THEN JNull
  ELSE IF ~Utf8Valid(b) THEN Raised("UnicodeDecodeError")
  ELSE Parsed(json_loads(Utf8Replace(b)), b)

\* s[:100] + "..."
Truncated(s) == Take(s, TruncLen) \o S_dots

\* a summary of a message that keeps its content alone
SummarizeMessage_bare(msg) ==
  IF IsDict(msg) /\ Has(msg, "content") /\ IsStr(Get(msg, "content"))
  THEN O1("content", JStr(Truncated(msg.d["content"].s)))
  ELSE msg

SummarizeMessage(msg) ==
  IF IsDict(msg) /\ Has(msg, "content") /\ IsStr(Get(msg, "content"))
  THEN Put(msg, "content", JStr(Truncated(msg.d["content"].s)))
  ELSE msg

SummarizeText(d, key) ==
  IF Has(d, key) /\ IsStr(Get(d, key))
  THEN Put(d, key, JStr(Truncated(d.d[key].s)))
  ELSE d

SummarizeContextItem(item) ==
  IF IsStr(item) /\ Len(item.s) > TruncLen THEN JStr(Truncated(item.s)) ELSE item

\* lines 60-69
SummarizeMessages(summary) ==
  IF Has(summary, "messages") /\ IsList(summary.d["messages"])
  THEN Put(summary, "messages",
           JList([i \in 1..Len(summary.d["messages"].l) |->
                    SummarizeMessage(summary.d["messages"].l[i])]))
  ELSE summary

\* lines 80-84
SummarizePrediction(summary) ==
  IF Has(summary, "prediction") /\ IsDict(Get(summary, "prediction"))
  THEN Put(summary, "prediction", SummarizeText(summary.d["prediction"], "content"))
  ELSE summary

\* lines 88-96
SummarizeContext(new_extra) ==
  IF Has(new_extra, "context") /\ IsList(Get(new_extra, "context"))
  THEN Put(new_extra, "context",
           JList([i \in 1..Len(new_extra.d["context"].l) |->
                    SummarizeContextItem(new_extra.d["context"].l[i])]))
  ELSE new_extra

\* lines 87-97
SummarizeExtra(summary) ==
  IF Has(summary, "extra") /\ IsDict(Get(summary, "extra"))
  THEN Put(summary, "extra", SummarizeContext(summary.d["extra"]))
  ELSE summary

\* lines 52-99
_summarize_req_json(data) ==
  IF ~Truthy(data) \/ ~IsDict(data) THEN data
  ELSE SummarizeExtra(
         SummarizePrediction(
           SummarizeText(SummarizeText(SummarizeMessages(data), "prompt"), "suffix")))

\* lines 113-117
SummarizeChoiceMessage(new_choice) ==
  IF Has(new_choice, "message") /\ IsDict(new_choice.d["message"])
  THEN Put(new_choice, "message", SummarizeText(new_choice.d["message"], "content"))
  ELSE new_choice

\* lines 110-125
SummarizeChoice(choice) ==
  IF IsDict(choice) THEN SummarizeText(SummarizeChoiceMessage(choice), "text") ELSE choice

_summarize_resp_json(data) ==
  IF ~Truthy(data) \/ ~IsDict(data) THEN data
  ELSE IF Has(data, "choices") /\ IsList(data.d["choices"])
       THEN Put(data, "choices",
                JList([i \in 1..Len(data.d["choices"].l) |->
                         SummarizeChoice(data.d["choices"].l[i])]))
       ELSE data

\* len(x) of a str, list or dict
PyLen(j) ==
  CASE j.k = "str" -> Len(j.s)
    [] j.k = "list" -> Len(j.l)
    [] j.k = "dict" -> Len(j.keys)

\* round(n / 4): Python rounds a half to the even neighbour
RoundQuarter(n) ==
  LET q == n \div 4
      r == n % 4
  IN  IF r < 2 THEN q
      ELSE IF r > 2 THEN q + 1
      ELSE IF q % 2 = 0 THEN q ELSE q + 1

\* len() of a number is a TypeError
_estimate_tokens(text) ==
  IF ~Truthy(text) THEN JNum(0)
  ELSE IF text.k \in {"str", "list", "dict"} THEN JNum(RoundQuarter(PyLen(text)))
  ELSE Raised("TypeError")

\* key in x: a key test on a dict, a substring test on a str, a membership
\* test on a list, a TypeError on None and on a number
PyIn(key, x) ==
  CASE x.k = "dict" -> IF Has(x, key) THEN "yes" ELSE "no"
    [] x.k = "str" -> IF Contains(x.s, KeyChars[key]) THEN "yes" ELSE "no"
    [] x.k = "list" ->
         IF \E i \in 1..Len(x.l) : JEq(x.l[i], JStr(KeyChars[key])) THEN "yes" ELSE "no"
    [] OTHER -> "TypeError"

(***************************************************************************)
(* _reconstruct_sse_response: one pass over the fragments.  `exc` is the   *)
(* exception that left the function, "" while there is none.               *)
(***************************************************************************)
SseInit ==
  [full_content |-> <<>>, role |-> JNull, finish_reason |-> JNull,
   final_usage |-> EmptyDict, metadata |-> EmptyDict, model_type |-> "None",
   exc |-> ""]

\* for k, v in data.items(): if k != "choices": metadata[k] = v
RECURSIVE MergeMetadata(_, _, _)
MergeMetadata(metadata, data, i) ==
  IF i > Len(data.keys) THEN metadata
  ELSE MergeMetadata(
         IF data.keys[i] # "choices"
         THEN Put(metadata, data.keys[i], data.d[data.keys[i]])
         ELSE metadata,
         data, i + 1)

\* a detection that looks at the choice of every fragment, decided or not
DetectType_every(st, choice) ==
  IF PyIn("delta", choice) = "TypeError" THEN [st EXCEPT !.exc = "TypeError"]
  ELSE IF PyIn("delta", choice) = "yes" THEN [st EXCEPT !.model_type = "chat"]
  ELSE IF PyIn("text", choice) = "yes" THEN [st EXCEPT !.model_type = "completion"]
  ELSE st

\* lines 168-172: the shape is decided by the first choice that has a field
DetectType(st, choice) ==
  IF st.model_type # "None" THEN st
  ELSE IF PyIn("delta", choice) = "TypeError" THEN [st EXCEPT !.exc = "TypeError"]
  ELSE IF PyIn("delta", choice) = "yes" THEN [st EXCEPT !.model_type = "chat"]
  ELSE IF PyIn("text", choice) = "yes" THEN [st EXCEPT !.model_type = "completion"]
  ELSE st

\* lines 176-177: if "role" in delta and delta["role"]: role = delta["role"]
ChatRole(st, delta) ==
  IF st.exc # "" THEN st
  ELSE IF PyIn("role", delta) = "TypeError" THEN [st EXCEPT !.exc = "TypeError"]
  ELSE IF PyIn("role", delta) = "no" THEN st
  ELSE IF ~IsDict(delta) THEN [st EXCEPT !.exc = "TypeError"]
  ELSE IF Truthy(delta.d["role"]) THEN [st EXCEPT !.role = delta.d["role"]]
  ELSE st

\* an accumulation that keeps the text of the last fragment only
AddContent_last(st, x, key) ==
  IF st.exc # "" THEN st
  ELSE IF PyIn(key, x) = "TypeError" THEN [st EXCEPT !.exc = "TypeError"]
  ELSE IF PyIn(key, x) = "no" THEN st
  ELSE IF ~IsDict(x) THEN [st EXCEPT !.exc = "TypeError"]
  ELSE IF ~Truthy(x.d[key]) THEN st
  ELSE IF ~IsStr(x.d[key]) THEN [st EXCEPT !.exc = "TypeError"]
  ELSE [st EXCEPT !.full_content = x.d[key].s]

\* lines 178-179 and 181-182: if key in x and x[key]: full_content += x[key]
AddContent(st, x, key) ==
  IF st.exc # "" THEN st
  ELSE IF PyIn(key, x) = "TypeError" THEN [st EXCEPT !.exc = "TypeError"]
  ELSE IF PyIn(key, x) = "no" THEN st
  ELSE IF ~IsDict(x) THEN [st EXCEPT !.exc = "TypeError"]
  ELSE IF ~Truthy(x.d[key]) THEN st
  ELSE IF ~IsStr(x.d[key]) THEN [st EXCEPT !.exc = "TypeError"]
  ELSE [st EXCEPT !.full_content = @ \o x.d[key].s]

\* lines 174-183
ExtractContent(st, choice) ==
  IF st.exc # "" THEN st
  ELSE IF st.model_type = "chat"
       THEN IF ~IsDict(choice) THEN [st EXCEPT !.exc = "AttributeError"]
            ELSE LET delta == GetOr(choice, "delta", EmptyDict)
                 IN  AddContent(ChatRole(st, delta), delta, "content")
  ELSE IF st.model_type = "completion" THEN AddContent(st, choice, "text")
  ELSE st

\* lines 185-186
FinishReason(st, choice) ==
  IF st.exc # "" THEN st
  ELSE IF ~IsDict(choice) THEN [st EXCEPT !.exc = "AttributeError"]
  ELSE IF Truthy(Get(choice, "finish_reason"))
       THEN [st EXCEPT !.finish_reason = Get(choice, "finish_reason")]
  ELSE st

\* lines 165-186: the first choice of a fragment
SseChoice(st, choice) ==
  FinishReason(ExtractContent(DetectType(st, choice), choice), choice)

\* lines 161-163: choices = data.get("choices")
SseChoices(st, choices) ==
  IF ~Truthy(choices) \/ ~IsList(choices) THEN st
  ELSE IF ~Truthy(choices.l[1]) THEN st
  ELSE SseChoice(st, choices.l[1])

\* a merge in which the usage of a fragment replaces the usage so far
SseMerge_replace(st, data) ==
  [st EXCEPT
     !.metadata = MergeMetadata(st.metadata, data, 1),
     !.final_usage = IF Has(data, "usage") /\ IsDict(data.d["usage"])
                     THEN data.d["usage"]
                     ELSE st.final_usage]

\* lines 153-159: the fields and the usage of a fragment
SseMerge(st, data) ==
  [st EXCEPT
     !.metadata = MergeMetadata(st.metadata, data, 1),
     !.final_usage = IF Has(data, "usage") /\ IsDict(data.d["usage"])
                     THEN Update(st.final_usage, data.d["usage"])
                     ELSE st.final_usage]

\* a consumer in which a fragment that is not a JSON object ends the
\* aggregation with an error
SseParsed_aborting(st, r) ==
  IF ~r.ok \/ ~IsDict(r.value) THEN [st EXCEPT !.exc = "ValueError"]
  ELSE SseChoices(SseMerge(st, r.value), Get(r.value, "choices"))

\* lines 146-149 and 188: json.loads gave r
SseParsed(st, r) ==
  IF ~r.ok THEN st
  ELSE IF ~IsDict(r.value) THEN st
  ELSE SseChoices(SseMerge(st, r.value), Get(r.value, "choices"))

\* lines 142-189: the body of the loop for one fragment
SseStep(st, chunk_str) ==
  IF st.exc # "" THEN st
  ELSE IF Strip(chunk_str) = <<>> THEN st
  ELSE SseParsed(st, json_loads(chunk_str))

RECURSIVE SseLoop(_, _, _)
SseLoop(st, chunks, i) ==
  IF i > Len(chunks) THEN st ELSE SseLoop(SseStep(st, chunks[i]), chunks, i + 1)

\* lines 191-193
FinalMetadata(st) ==
  IF Truthy(st.final_usage) THEN Put(st.metadata, "usage", st.final_usage)
  ELSE st.metadata

\* lines 196-225: the one choice and the shape tag of the aggregated response
AggregatedChoice(st) ==
  IF st.model_type = "chat"
  THEN O3("index", JNum(0),
          "message", O2("role", st.role, "content", JStr(st.full_content)),
          "finish_reason", st.finish_reason)
  ELSE IF st.model_type = "completion"
  THEN O3("index", JNum(0), "text", JStr(st.full_content),
          "finish_reason", st.finish_reason)
  ELSE O3("index", JNum(0), "message", O1("content", JStr(<<>>)),
          "finish_reason", st.finish_reason)
AggregatedObject(st) ==
  IF st.model_type = "chat" THEN S_chat_aggregated
  ELSE IF st.model_type = "completion" THEN S_text_aggregated
  ELSE S_unknown_aggregated

\* lines 228-229
WithUsage(final_response, metadata) ==
  IF Has(metadata, "usage") THEN Put(final_response, "usage", metadata.d["usage"])
  ELSE final_response

\* lines 196-231
FinalResponse(st, metadata) ==
  WithUsage(Put(Put(metadata, "object", JStr(AggregatedObject(st))),
                "choices", JList(<<AggregatedChoice(st)>>)),
            metadata)

\* lines 191-231: the aggregated response, or the exception
Assemble(st) ==
  IF st.exc # "" THEN Raised(st.exc) ELSE FinalResponse(st, FinalMetadata(st))

\* lines 130-231
_reconstruct_sse_response(chunks) == Assemble(SseLoop(SseInit, chunks, 1))

(***************************************************************************)
(* CopilotLogger.response, lines 298-463, as a pass over a context `c` of  *)
(* its local variables; `exc` is the exception that left the handler.      *)
(***************************************************************************)
\* a + b
PyAdd(a, b) ==
  IF a.k = "num" /\ b.k = "num" THEN JNum(a.n + b.n)
  ELSE IF a.k = "str" /\ b.k = "str" THEN JStr(a.s \o b.s)
  ELSE IF a.k = "list" /\ b.k = "list" THEN JList(a.l \o b.l)
  ELSE Raised("TypeError")

\* (a - b) if (a and b) else None
Elapsed(a, b) == IF Truthy(a) /\ Truthy(b) THEN JNum(a.n - b.n) ELSE JNull

\* lines 302-321
Timings(fl) ==
  LET t_req == IF Truthy(fl.req_ts) THEN fl.req_ts
               ELSE IF "t_req_start_meta" \in DOMAIN fl.metadata
                    THEN fl.metadata["t_req_start_meta"] ELSE JNull
      is_sse == "sse_chunks" \in DOMAIN fl.metadata
  IN  [exc |-> "",
       ttfb |-> _safe_float(Elapsed(fl.resp_ts_start, t_req)),
       latency_total |-> _safe_float(Elapsed(fl.resp_ts_end, t_req)),
       streaming_duration_s |-> _safe_float(Elapsed(fl.resp_ts_end, fl.resp_ts_start)),
       req_bytes |-> Len(fl.req_raw),
       is_sse |-> is_sse,
       resp_bytes |-> IF is_sse
                      THEN (IF "sse_bytes" \in DOMAIN fl.metadata
                            THEN fl.metadata["sse_bytes"] ELSE 0)
                      ELSE Len(fl.resp_raw),
       req_json_full |-> JNull, final_resp_json |-> JNull,
       completion_tokens |-> JNull, prompt_tokens |-> JNull, output_tps |-> JNull,
       req_json_to_save |-> JNull, resp_json_to_save |-> JNull, model |-> JNull]

\* line 324
RequestJson(fl) == IF declares_json(fl.req_ct) THEN _safe_json(fl.req_raw) ELSE JNull

\* lines 325-331
ResponseJson(c, fl) ==
  IF c.is_sse THEN _reconstruct_sse_response(fl.metadata["sse_chunks"])
  ELSE IF declares_json(fl.resp_ct) THEN _safe_json(fl.resp_raw)
  ELSE JNull

\* lines 323-331: the two bodies, or the exception of the first that raises
BodiesOf(c, req, resp) ==
  IF IsRaise(req) THEN [c EXCEPT !.exc = req.exc]
  ELSE IF IsRaise(resp) THEN [c EXCEPT !.exc = resp.exc]
  ELSE [c EXCEPT !.req_json_full = req, !.final_resp_json = resp]
Bodies(c, fl) == BodiesOf(c, RequestJson(fl), ResponseJson(c, fl))

\* lines 338-352: the request's input-length hints
PromptHints(c) ==
  IF c.exc # "" \/ ~Truthy(c.req_json_full) THEN c
  ELSE IF ~IsDict(c.req_json_full) THEN [c EXCEPT !.exc = "AttributeError"]
  ELSE IF ~IsDict(Get(c.req_json_full, "extra")) THEN c
  ELSE
    LET extra == c.req_json_full.d["extra"]
        p_tokens == Get(extra, "prompt_tokens")
        s_tokens == Get(extra, "suffix_tokens")
        t1 == IF IsNone(p_tokens) THEN JNum(0) ELSE PyAdd(JNum(0), p_tokens)
        t2 == IF IsRaise(t1) \/ IsNone(s_tokens) THEN t1 ELSE PyAdd(t1, s_tokens)
    IN  IF IsRaise(t2) THEN [c EXCEPT !.exc = t2.exc]
        ELSE IF t2.n > 0 THEN [c EXCEPT !.prompt_tokens = t2]
        ELSE c

\* lines 354-358
UsageCounts(c) ==
  IF c.exc # "" \/ ~Truthy(c.final_resp_json) THEN c
  ELSE IF ~IsDict(c.final_resp_json) THEN [c EXCEPT !.exc = "AttributeError"]
  ELSE IF ~IsDict(Get(c.final_resp_json, "usage")) THEN c
  ELSE
    LET usage == c.final_resp_json.d["usage"]
    IN  [c EXCEPT !.completion_tokens = Get(usage, "completion_tokens"),
                  !.prompt_tokens = GetOr(usage, "prompt_tokens", c.prompt_tokens)]

\* lines 366-369: the text of the first choice, or the exception
ChoiceText(choice) ==
  LET in_text == PyIn("text", choice)
      in_message == PyIn("message", choice)
  IN  IF in_text = "TypeError" THEN Raised("TypeError")
      ELSE IF in_text = "yes" /\ ~IsDict(choice) THEN Raised("TypeError")
      ELSE IF in_text = "yes" /\ IsStr(choice.d["text"]) THEN choice.d["text"]
      ELSE IF in_message = "no" THEN JStr(<<>>)
      ELSE IF ~IsDict(choice) THEN Raised("AttributeError")
      ELSE IF IsDict(choice.d["message"])
           THEN GetOr(choice.d["message"], "content", JStr(<<>>))
      ELSE JStr(<<>>)

\* lines 370-372: if text_content: completion_tokens = _estimate_tokens(text_content)
EstimateFrom(c, text_content) ==
  IF IsRaise(text_content) THEN [c EXCEPT !.exc = text_content.exc]
  ELSE IF ~Truthy(text_content) THEN c
  ELSE IF IsRaise(_estimate_tokens(text_content))
       THEN [c EXCEPT !.exc = _estimate_tokens(text_content).exc]
  ELSE [c EXCEPT !.completion_tokens = _estimate_tokens(text_content)]

\* lines 363-372: choices = final_resp_json.get("choices")
EstimateFromChoices(c, choices) ==
  IF ~Truthy(choices) \/ ~IsList(choices) THEN c
  ELSE EstimateFrom(c, ChoiceText(choices.l[1]))

\* an estimate made whether or not the usage states a count
EstimateCompletion_always(c) ==
  IF c.exc # "" \/ ~Truthy(c.final_resp_json) THEN c
  ELSE EstimateFromChoices(c, Get(c.final_resp_json, "choices"))

\* lines 361-372
EstimateCompletion(c) ==
  IF c.exc # "" \/ ~IsNone(c.completion_tokens) \/ ~Truthy(c.final_resp_json) THEN c
  ELSE EstimateFromChoices(c, Get(c.final_resp_json, "choices"))

\* a throughput over whatever duration there is
Throughput_unguarded(c) ==
  IF c.exc # "" \/ IsNone(c.completion_tokens) \/ IsNone(c.streaming_duration_s) THEN c
  ELSE IF ~IsNum(c.completion_tokens) THEN [c EXCEPT !.exc = "TypeError"]
  ELSE [c EXCEPT !.output_tps = JFrac(c.completion_tokens.n, c.streaming_duration_s.n)]

\* lines 374-375; the unit of time is far above 1e-9 s
Throughput(c) ==
  IF c.exc # "" \/ IsNone(c.completion_tokens) \/ IsNone(c.streaming_duration_s) THEN c
  ELSE IF ~(c.streaming_duration_s.n > 0) THEN c
  ELSE IF ~IsNum(c.completion_tokens) THEN [c EXCEPT !.exc = "TypeError"]
  ELSE [c EXCEPT !.output_tps = JFrac(c.completion_tokens.n, c.streaming_duration_s.n)]

\* lines 378-379
Summaries(c) ==
  IF c.exc # "" THEN c
  ELSE [c EXCEPT
          !.req_json_to_save = IF SAVE_BODIES THEN c.req_json_full
                               ELSE _summarize_req_json(c.req_json_full),
          !.resp_json_to_save = IF SAVE_BODIES THEN c.final_resp_json
                                ELSE _summarize_resp_json(c.final_resp_json)]

\* lines 391-396: a computed count fills a counter the usage object lacks
FillCounter(usage_obj, key, computed) ==
  IF ~Has(usage_obj, key) /\ ~IsNone(computed) THEN Put(usage_obj, key, computed)
  ELSE usage_obj

\* a normalisation that keeps the total the response states
TotalTokens_stated(usage_obj) ==
  IF Has(usage_obj, "total_tokens") THEN usage_obj.d["total_tokens"]
  ELSE PyAdd(PyAdd(GetOr(usage_obj, "prompt_tokens", JNum(0)),
                   GetOr(usage_obj, "completion_tokens", JNum(0))),
             GetOr(usage_obj, "reasoning_tokens", JNum(0)))

\* lines 399-402: p_tok + c_tok + r_tok, or the exception
TotalTokens(usage_obj) ==
  LET p_tok == GetOr(usage_obj, "prompt_tokens", JNum(0))
      c_tok == GetOr(usage_obj, "completion_tokens", JNum(0))
      r_tok == GetOr(usage_obj, "reasoning_tokens", JNum(0))
      pc == PyAdd(p_tok, c_tok)
  IN  IF IsRaise(pc) THEN pc ELSE PyAdd(pc, r_tok)

\* lines 383-384: the usage object of the response, made if it is missing
\* or not an object
UsageObject(resp) ==
  IF ~Has(resp, "usage") \/ ~IsDict(Get(resp, "usage")) THEN EmptyDict
  ELSE resp.d["usage"]

\* lines 399-402
WithTotal(c, usage_obj, total) ==
  IF IsRaise(total) THEN [c EXCEPT !.exc = total.exc]
  ELSE [c EXCEPT !.resp_json_to_save =
                    Put(@, "usage", Put(usage_obj, "total_tokens", total))]

\* lines 391-402
Normalized(c, usage_obj) == WithTotal(c, usage_obj, TotalTokens(usage_obj))

\* lines 382-402
NormalizeUsage(c) ==
  IF c.exc # "" \/ IsNone(c.resp_json_to_save) THEN c
  ELSE IF ~IsDict(c.resp_json_to_save) THEN [c EXCEPT !.exc = "TypeError"]
  ELSE Normalized(c, FillCounter(FillCounter(UsageObject(c.resp_json_to_save),
                                             "prompt_tokens", c.prompt_tokens),
                                 "completion_tokens", c.completion_tokens))

\* lines 416-421: path_parts[path_parts.index("engines") + 1]
AfterEngines(path_parts, hits) ==
  IF hits = {} THEN JNull
  ELSE IF (CHOOSE i \in hits : \A j \in hits : i <= j) < Len(path_parts)
       THEN JStr(path_parts[(CHOOSE i \in hits : \A j \in hits : i <= j) + 1])
  ELSE JNull
EnginesAt(path_parts) == {i \in 1..Len(path_parts) : path_parts[i] = S_engines}
SegmentAfterEngines(path_parts) == AfterEngines(path_parts, EnginesAt(path_parts))

\* lines 414-421: the path segment after the first "engines" segment
ModelFromPath(path) == SegmentAfterEngines(Split(path, "/"))

\* a resolution that asks the request before the response
ResolveModel_request_first(final_resp_json, req_json_full, path) ==
  IF Truthy(req_json_full) /\ Truthy(Get(req_json_full, "model"))
  THEN Get(req_json_full, "model")
  ELSE IF Truthy(final_resp_json) /\ Truthy(Get(final_resp_json, "model"))
  THEN Get(final_resp_json, "model")
  ELSE ModelFromPath(path)

\* lines 406-421
ResolveModel(final_resp_json, req_json_full, path) ==
  IF Truthy(final_resp_json) /\ Truthy(Get(final_resp_json, "model"))
  THEN Get(final_resp_json, "model")
  ELSE IF Truthy(req_json_full) /\ Truthy(Get(req_json_full, "model"))
  THEN Get(req_json_full, "model")
  ELSE ModelFromPath(path)

\* lines 423-429
Inject(c, model) ==
  IF ~Truthy(model) THEN [c EXCEPT !.model = model]
  ELSE IF ~IsNone(c.req_json_to_save) /\ ~IsDict(c.req_json_to_save)
  THEN [c EXCEPT !.model = model, !.exc = "TypeError"]
  ELSE [c EXCEPT
          !.model = model,
          !.req_json_to_save = IF IsNone(@) THEN @ ELSE Put(@, "model", model),
          !.resp_json_to_save = IF IsNone(@) THEN @ ELSE Put(@, "model", model)]

\* lines 406-429
InjectModel(c, fl) ==
  IF c.exc # "" THEN c
  ELSE Inject(c, ResolveModel(c.final_resp_json, c.req_json_full, fl.path))

\* lines 433-449
RecordFields(c, fl) ==
  [ts_end |-> fl.resp_ts_end,
   method |-> fl.method,
   host |-> fl.host,
   path |-> fl.path,
   status |-> fl.status,
   ttfb_s |-> c.ttfb,
   latency_total_s |-> c.latency_total,
   streaming_duration_s |-> c.streaming_duration_s,
   req_bytes |-> c.req_bytes,
   resp_bytes |-> c.resp_bytes,
   output_tps |-> c.output_tps,
   req_ct |-> fl.req_ct,
   resp_ct |-> fl.resp_ct,
   req_json |-> c.req_json_to_save,
   resp_json |-> c.resp_json_to_save]

\* a record that leaves out the keys whose value is null
Sparse(rec) ==
  [key \in {x \in DOMAIN rec :
              \/ x \notin {"ts_end", "ttfb_s", "latency_total_s", "streaming_duration_s",
                           "output_tps", "req_json", "resp_json"}
              \/ rec[x] # JNull} |-> rec[key]]
RecordOf_sparse(c, fl) == Sparse(RecordFields(c, fl))

\* lines 433-453: the record
RecordOf(c, fl) ==
  IF SAVE_HEADERS
  THEN RecordFields(c, fl) @@ [req_headers |-> fl.req_ct, resp_headers |-> fl.resp_ct]
  ELSE RecordFields(c, fl)

\* the handler's outcome: the exception that left it, or the record and the
\* local variable `model`
Outcome(c, fl) ==
  IF c.exc # "" THEN [exc |-> c.exc]
  ELSE [exc |-> "", rec |-> RecordOf(c, fl), model |-> c.model]

\* lines 302-453: the handler up to the record
BuildRecord(fl) ==
  Outcome(InjectModel(
            NormalizeUsage(
              Summaries(
                Throughput(
                  EstimateCompletion(
                    UsageCounts(
                      PromptHints(
                        Bodies(Timings(fl), fl))))))), fl), fl)

(***************************************************************************)
(* The exchanges.  flows[f] is the mitmproxy flow of exchange f: what the  *)
(* transport knows of it (request, response, the body still to deliver),   *)
(* flow.metadata, and whether flow.response.stream holds on_chunk.         *)
(* events_file is events.jsonl, one record per line; event_queue is the    *)
(* queue of main.py.  viewers[v] is the websocket connection v of main.py  *)
(* and what was sent on it; history is the answer of the last GET /history,*)
(* loaded the outcome of the analyzer's last load_events().                 *)
(***************************************************************************)
VARIABLES flows, events_file, event_queue, viewers, history, loaded
vars == <<flows, events_file, event_queue, viewers, history, loaded>>

Flows == {1, 2}
Viewers == {1, 2}

\* no websocket is open, and nothing was sent on any
NoViewers == [v \in Viewers |-> [state |-> "closed", sent |-> <<>>]]
\* GET /history was not asked
NoHistory == [status |-> 0, events |-> <<>>]
NotLoaded == [exc |-> "none", events |-> <<>>]

NoMetadata == [x \in {} |-> 0]

NewFlow ==
  [phase |-> "new",
   host |-> "", method |-> "", path |-> <<>>, req_ct |-> "", req_raw |-> <<>>,
   req_ts |-> JNull,
   resp_ct |-> "", status |-> 0, resp_ts_start |-> JNull, resp_ts_end |-> JNull,
   resp_raw |-> <<>>,
   body |-> <<>>, sent |-> 0, eos |-> FALSE,
   metadata |-> NoMetadata, stream |-> FALSE,
   chunk |-> <<>>, returned |-> <<>>, returned_v1 |-> <<>>, calls |-> 0,
   out |-> "none", rec |-> JNull, model |-> JNull]

\* a filter that looks at the host only
Observed_hostonly(fl) == _is_copilot_host(fl.host)

\* lines 247, 254, 299: the exchanges the addon looks at
Observed(fl) == _is_copilot_host(fl.host) /\ fl.method # "GET"

\* lines 246-250
request(fl, now) ==
  IF ~Observed(fl) THEN fl
  ELSE [fl EXCEPT !.metadata = ("t_req_start_meta" :> JNum(now)) @@ @]

\* lines 252-263 and 296
responseheaders(fl) ==
  IF ~Observed(fl) THEN fl
  ELSE IF _looks_like_sse(fl.resp_ct)
  THEN [fl EXCEPT
          !.metadata = [x \in DOMAIN @ \cup {"sse_bytes", "sse_chunks", "sse_buffer"} |->
                          IF x = "sse_bytes" THEN 0
                          ELSE IF x \in {"sse_chunks", "sse_buffer"} THEN <<>>
                          ELSE @[x]],
          !.stream = TRUE]
  ELSE fl

\* lines 271-274 and 289-292: the fragment of a data line, if it has one
DataPart(line) ==
  IF StartsWith(line, DataMarker)
  THEN LET data_part == Strip(Drop(line, Len(DataMarker)))
       IN  IF data_part # <<>> /\ data_part # DoneSentinel THEN <<data_part>> ELSE <<>>
  ELSE <<>>

DataParts(lines) == Flatten([i \in 1..Len(lines) |-> DataPart(Strip(lines[i]))])

\* a consumer that hands on the text it decoded, encoded again
on_chunk_return_decoded(chunk) == Utf8Encode(_decode(chunk))

\* line 275 and 294: what on_chunk returns to the transport
on_chunk_return(chunk) == chunk

\* lines 281-292: the last line is kept, the lines before it are read
Buffered(metadata, lines, chunk) ==
  [metadata EXCEPT
     !["sse_bytes"] = @ + Len(chunk),
     !["sse_buffer"] = lines[Len(lines)],
     !["sse_chunks"] = @ \o DataParts(SubSeq(lines, 1, Len(lines) - 1))]

\* lines 265-294: flow.metadata after on_chunk(chunk)
on_chunk(metadata, chunk) ==
  IF chunk = <<>>
  THEN IF metadata["sse_buffer"] # <<>>
       THEN [metadata EXCEPT !["sse_chunks"] = @ \o DataPart(metadata["sse_buffer"])]
       ELSE metadata
  ELSE Buffered(metadata, Split(metadata["sse_buffer"] \o _decode(chunk), "\n"), chunk)

\* src/copilot_logger.py, lines 96-103: the first version of the consumer
on_chunk_v1_return(chunk) == chunk

\* src/backend/main.py, lines 42-47: Queue() is built without a maxsize
\* (line 27), so put_nowait finds it full only at the limit of the platform
\* semaphore (2147483647 records), which no run comes near: the record is
\* appended
on_event_callback(queue, event_data) == Append(queue, event_data)

Init ==
  /\ flows = [f \in Flows |-> NewFlow]
  /\ events_file = <<>>
  /\ event_queue = <<>>
  /\ viewers = NoViewers
  /\ history = NoHistory
  /\ loaded = NotLoaded

\* the flow of a request rq when the addon has seen it
Started(rq) ==
  request([NewFlow EXCEPT !.phase = "request", !.host = rq.host,
                          !.method = rq.method, !.path = rq.path,
                          !.req_ct = rq.ct, !.req_raw = rq.raw,
                          !.req_ts = rq.ts], rq.now)

\* the flow fl when the headers of a response rs have arrived and the addon
\* has seen them
Answered(fl, rs) ==
  responseheaders([fl EXCEPT !.phase = "headers", !.resp_ct = rs.ct,
                             !.status = rs.status, !.resp_ts_start = rs.ts,
                             !.body = rs.body])

\* the collaborator reports a request
Request(f, requests) ==
  \E rq \in requests :
    /\ flows[f].phase = "new"
    /\ flows' = [flows EXCEPT ![f] = Started(rq)]
    /\ UNCHANGED <<events_file, event_queue, viewers, history, loaded>>

\* the response's headers have arrived
ResponseHeaders(f, responses) ==
  \E rs \in responses :
    /\ flows[f].phase = "request"
    /\ flows' = [flows EXCEPT ![f] = Answered(@, rs)]
    /\ UNCHANGED <<events_file, event_queue, viewers, history, loaded>>

\* the consumer is called with the bytes `next`, n of them
Consume(fl, next, n) ==
  [fl EXCEPT !.metadata = on_chunk(@, next),
             !.chunk = next,
             !.returned = on_chunk_return(next),
             !.returned_v1 = on_chunk_v1_return(next),
             !.calls = 1,
             !.sent = @ + n,
             !.eos = (n = 0)]

\* a consumer whose pending line is kept in one place for all exchanges:
\* what a chunk of f leaves pending is what every stream has pending
OnChunk_shared(f, sizes) ==
  /\ flows[f].phase = "headers" /\ flows[f].stream /\ ~flows[f].eos
  /\ \E n \in (IF Len(flows[f].body) = flows[f].sent THEN {0}
               ELSE {m \in sizes : m < Len(flows[f].body) - flows[f].sent}
                    \cup {Len(flows[f].body) - flows[f].sent}) :
       flows' = [g \in Flows |->
                   IF g = f \/ ~flows[g].stream
                   THEN (IF g = f
                         THEN Consume(flows[f], SubSeq(flows[f].body, flows[f].sent + 1,
                                                       flows[f].sent + n), n)
                         ELSE flows[g])
                   ELSE [flows[g] EXCEPT
                           !.metadata["sse_buffer"] =
                              Consume(flows[f], SubSeq(flows[f].body, flows[f].sent + 1,
                                                       flows[f].sent + n), n)
                                .metadata["sse_buffer"]]]
  /\ UNCHANGED <<events_file, event_queue, viewers, history, loaded>>

\* the transport hands the next bytes of the body to the consumer, all that
\* is left of it or fewer (a number of bytes in sizes), and b"" once the body
\* is through
OnChunk(f, sizes) ==
  /\ flows[f].phase = "headers" /\ flows[f].stream /\ ~flows[f].eos
  /\ \E n \in (IF Len(flows[f].body) = flows[f].sent THEN {0}
               ELSE {m \in sizes : m < Len(flows[f].body) - flows[f].sent}
                    \cup {Len(flows[f].body) - flows[f].sent}) :
       flows' = [flows EXCEPT ![f] =
                   Consume(@, SubSeq(@.body, @.sent + 1, @.sent + n), n)]
  /\ UNCHANGED <<events_file, event_queue, viewers, history, loaded>>

\* the transport's view of the exchange when the response is complete
Completed(fl, ts_end) ==
  [fl EXCEPT !.phase = "done", !.resp_ts_end = ts_end,
             !.resp_raw = IF fl.stream THEN <<>> ELSE fl.body]

\* lines 455-463: the record is written to the file and handed to on_event;
\* an exception leaves the handler before either
Emit(f, fl, r) ==
  IF r.exc # ""
  THEN /\ flows' = [flows EXCEPT ![f] = [fl EXCEPT !.out = r.exc]]
       /\ UNCHANGED <<events_file, event_queue, viewers, history, loaded>>
  ELSE /\ flows' = [flows EXCEPT ![f] = [fl EXCEPT !.out = "record", !.rec = r.rec,
                                                  !.model = r.model]]
       /\ events_file' = Append(events_file, r.rec)
       /\ event_queue' = on_event_callback(event_queue, r.rec)
       /\ UNCHANGED <<viewers, history, loaded>>

\* lines 298-463
response(f, fl) ==
  IF ~Observed(fl)
  THEN /\ flows' = [flows EXCEPT ![f] = fl]
       /\ UNCHANGED <<events_file, event_queue, viewers, history, loaded>>
  ELSE Emit(f, fl, BuildRecord(fl))

\* the response is complete
Response(f, ends) ==
  \E ts_end \in ends :
    /\ flows[f].phase = "headers"
    /\ flows[f].stream => flows[f].eos
    /\ response(f, Completed(flows[f], ts_end))

\* the collaborator gives the exchange up: no callback runs any more
Abandon(f) ==
  /\ flows[f].phase \in {"request", "headers"}
  /\ flows' = [flows EXCEPT ![f].phase = "abandoned"]
  /\ UNCHANGED <<events_file, event_queue, viewers, history, loaded>>

(***************************************************************************)
(* src/backend/main.py.  A websocket connection v is "closed" (no handler  *)
(* runs for it), "open" (accepted: its handler polls the queue) or "gone"  *)
(* (the viewer has left; the handler polls on until a send tells it).      *)
(***************************************************************************)
\* line 105: a viewer connects and is accepted
Connect(v) ==
  /\ viewers[v].state = "closed"
  /\ viewers' = [viewers EXCEPT ![v].state = "open"]
  /\ UNCHANGED <<flows, events_file, event_queue, history, loaded>>

\* the viewer goes away; nothing of the handler runs
Disconnect(v) ==
  /\ viewers[v].state = "open"
  /\ viewers' = [viewers EXCEPT ![v].state = "gone"]
  /\ UNCHANGED <<flows, events_file, event_queue, history, loaded>>

\* lines 114-115: the record goes out on the connection
send_text(viewer, event_dict) == [viewer EXCEPT !.sent = Append(@, event_dict)]

\* lines 108-121, one turn of the loop of connection v that finds the queue
\* not empty: the record at its head is taken out and sent on v.  On a
\* connection whose viewer has left, the send is lost, and either raises
\* (the handler ends, lines 118-121) or does not (the handler goes on).
Poll(v) ==
  /\ viewers[v].state \in {"open", "gone"}
  /\ event_queue # <<>>
  /\ event_queue' = Tail(event_queue)
  /\ \/ /\ viewers[v].state = "open"
        /\ viewers' = [viewers EXCEPT ![v] = send_text(@, Head(event_queue))]
     \/ /\ viewers[v].state = "gone"
        /\ \E after \in {"gone", "closed"} :
             viewers' = [viewers EXCEPT ![v].state = after]
  /\ UNCHANGED <<flows, events_file, history, loaded>>

\* lines 91-95: the lines that are not blank and parse, parsed; json.loads
\* does not mind white space around a document
HistoryEvents(lines) ==
  [i \in 1..Len(lines) |-> json_loads(Strip(lines[i])).value]
ParsingLines(lines) ==
  SelectSeq(lines, LAMBDA line : Strip(line) # <<>> /\ json_loads(Strip(line)).ok)

\* lines 81-99, on a file that exists, given as its lines in bytes: the file
\* is read as UTF-8, strictly, and an error of the read is caught at line 97
get_history(file) ==
  IF \E i \in 1..Len(file) : ~Utf8Valid(file[i])
  THEN [status |-> 500, events |-> <<>>]
  ELSE [status |-> 200,
        events |-> HistoryEvents(ParsingLines([i \in 1..Len(file) |-> Utf8Replace(file[i])]))]

\* GET /history
GetHistory ==
  /\ history' = get_history(events_file)
  /\ UNCHANGED <<flows, events_file, event_queue, viewers, loaded>>

(***************************************************************************)
(* src/analyzer.py: load_events reads events.jsonl, given as its lines in  *)
(* bytes.                                                                  *)
(***************************************************************************)
\* x.get("ts_end", 0) of a loaded event
SortKey(x) == GetOr(x, "ts_end", JNum(0))

\* sorted(..., reverse=True) keeps the events of equal key in their order:
\* x goes behind every event whose key is not below its own
RECURSIVE InsertDescending(_, _)
InsertDescending(sorted, x) ==
  IF sorted = <<>> THEN <<x>>
  ELSE IF SortKey(Head(sorted)).n < SortKey(x).n THEN <<x>> \o sorted
  ELSE <<Head(sorted)>> \o InsertDescending(Tail(sorted), x)
RECURSIVE SortedDescending(_, _)
SortedDescending(events, i) ==
  IF i = 0 THEN <<>> ELSE InsertDescending(SortedDescending(events, i - 1), events[i])

\* line 32: the key of an event that is not a dict is an AttributeError, and
\* keys that are not all numbers do not compare
sorted_by_ts_end(events) ==
  IF \E i \in 1..Len(events) : ~IsDict(events[i])
  THEN [exc |-> "AttributeError", events |-> <<>>]
  ELSE IF Len(events) > 1 /\ \E i \in 1..Len(events) : ~IsNum(SortKey(events[i]))
  THEN [exc |-> "TypeError", events |-> <<>>]
  ELSE [exc |-> "", events |-> SortedDescending(events, Len(events))]

\* lines 28-32, on a file that exists: every line goes through json.loads
load_events(file) ==
  IF \E i \in 1..Len(file) : ~Utf8Valid(file[i])
  THEN [exc |-> "UnicodeDecodeError", events |-> <<>>]
  ELSE IF \E i \in 1..Len(file) : ~json_loads(Strip(Utf8Replace(file[i]))).ok
  THEN [exc |-> "JSONDecodeError", events |-> <<>>]
  ELSE sorted_by_ts_end([i \in 1..Len(file) |-> json_loads(Strip(Utf8Replace(file[i]))).value])

\* the analyzer is started
LoadEvents ==
  /\ loaded' = load_events(events_file)
  /\ UNCHANGED <<flows, events_file, event_queue, viewers, history>>

(***************************************************************************)
(* The exchanges of the model.  Times are in milliseconds.                 *)
(***************************************************************************)
MaxFrags == 3

Bytes(v) == Utf8Encode(JsonText(v))
SseLine(text) == DataMarker \o text \o <<"\n", "\n">>
SseBody(texts) == Flatten([i \in 1..Len(texts) |-> Utf8Encode(SseLine(texts[i]))])
SeqsUpTo(S, n) == UNION {[1..m -> S] : m \in 0..n}

Rq(host, method, path, ct, raw) ==
  [host |-> host, method |-> method, path |-> path, ct |-> ct, raw |-> raw,
   ts |-> JNum(10), now |-> 10]
Rsp(ct, body) == [ct |-> ct, status |-> 200, ts |-> JNum(12), body |-> body]

Rq_post_fim == Rq("api.githubcopilot.com", "POST", P_engines, "application/json", Bytes(Rq_fim))
Rq_post_chat == Rq("proxy.githubcopilot.com", "POST", P_chat, "application/json", Bytes(Rq_chat))
Rq_post_nobody == Rq("api.githubcopilot.com", "POST", P_engines_last, "", <<>>)
Rq_post_list == Rq("api.githubcopilot.com", "POST", P_chat, "application/json", Bytes(Rq_list))
Rq_post_emptylist ==
  Rq("api.githubcopilot.com", "POST", P_engines, "application/json", Bytes(Rq_emptylist))
Rq_post_notjson == Rq("api.githubcopilot.com", "POST", P_chat, "application/json", B_notjson)
Rq_post_badutf8 == Rq("api.githubcopilot.com", "POST", P_chat, "application/json", B_badutf8)
Rq_get == Rq("api.githubcopilot.com", "GET", P_chat, "", <<>>)
Rq_elsewhere == Rq("example.com", "POST", P_chat, "application/json", Bytes(Rq_chat))

Rsp_stream == Rsp("text/event-stream", SseBody(<<JsonText(Fr_text), DoneSentinel>>))
Rsp_json == Rsp("application/json", Bytes(Rs(Absent, O1("completion_tokens", JNum(2)))))
Rsp_nullcount == Rsp("application/json", Bytes(Rs(Absent, O1("prompt_tokens", JNull))))
Rsp_plain == Rsp("text/plain", <<"o", "k">>)

\* the exchanges of the two-exchange run
LifeRequests == {Rq_post_fim, Rq_post_list, Rq_get, Rq_elsewhere}
LifeResponses == {Rsp_stream, Rsp_json, Rsp_nullcount, Rsp_plain}
LifeEnds == {JNum(16), JNull}
LifeSizes == {20}

Next ==
  \E f \in Flows :
    \/ Request(f, LifeRequests)
    \/ ResponseHeaders(f, LifeResponses)
    \/ OnChunk(f, LifeSizes)
    \/ Response(f, LifeEnds)
    \/ Abandon(f)

Spec == Init /\ [][Next]_vars

(***************************************************************************)
(* The response handler on its own: every exchange below has reached the   *)
(* end of its response, through the handlers above, and response() runs.   *)
(***************************************************************************)
\* the streamed flow fl when its whole body has gone through the consumer
\* in one chunk, and then the end of the stream
Delivered(fl) ==
  IF ~fl.stream THEN fl
  ELSE IF fl.body = <<>> THEN Consume(fl, <<>>, 0)
  ELSE Consume(Consume(fl, fl.body, Len(fl.body)), <<>>, 0)

Rq_post_both == Rq("api.githubcopilot.com", "POST", P_engines, "application/json", Bytes(Rq_chat))

\* the text of the fragments of a stream: the fragments above and one that
\* is not JSON
FragTexts == {JsonText(v) : v \in FragValues} \cup {B_notjson}

RespRequests ==
  {Rq_post_fim, Rq_post_chat, Rq_post_both, Rq_post_nobody, Rq_post_list,
   Rq_post_emptylist, Rq_post_notjson, Rq_post_badutf8}
RespStreamRequests == {Rq_post_chat, Rq_post_nobody}
RespBodies ==
  {Rsp("application/json", Bytes(v)) : v \in ResponseValues}
    \cup {Rsp("application/json; charset=utf-8", B_notjson),
          Rsp("application/json", B_badutf8), Rsp_plain}
RespStreams == {Rsp("text/event-stream", SseBody(t)) : t \in SeqsUpTo(FragTexts, MaxFrags)}
RespEnds == {JNum(16), JNull}

RespFlows ==
  {Delivered(Answered(Started(rq), rs)) : rq \in RespRequests, rs \in RespBodies}
    \cup {Delivered(Answered(Started(rq), rs)) : rq \in RespStreamRequests, rs \in RespStreams}

InitResp ==
  /\ \E fl \in RespFlows : flows = [f \in Flows |-> IF f = 1 THEN fl ELSE NewFlow]
  /\ events_file = <<>>
  /\ event_queue = <<>>
  /\ viewers = NoViewers
  /\ history = NoHistory
  /\ loaded = NotLoaded

NextResp == \E f \in Flows : Response(f, RespEnds)

SpecResp == InitResp /\ [][NextResp]_vars

(***************************************************************************)
(* The consumer on its own: a stream of lines goes through on_chunk, cut   *)
(* into chunks of any length up to MaxChunk, or all that is left.          *)
(***************************************************************************)
MaxLines == 2
MaxChunk == 3

\* the lines of a stream, as bytes
StreamLines ==
  {<<"d", "a", "t", "a", ":", " ", "7", "\n">>,
   <<" ", "d", "a", "t", "a", ":", " ", "7", " ", "\r", "\n">>,
   <<"d", "a", "t", "a", ":", " ", "[", "D", "O", "N", "E", "]", "\n">>,
   <<"d", "a", "t", "a", ":", " ", "\n">>,
   <<":", "\n">>,
   <<"d", "a", "t", "a", ":", " ", "xC3", "xA9", "\n">>,
   <<"d", "a", "t", "a", ":", " ", "xFF">>,
   <<" ", "d", "a", "t", "a", ":", " ", "7">>}
StreamBodies == {Flatten(ls) : ls \in SeqsUpTo(StreamLines, MaxLines)}
StreamFlows == {Answered(Started(Rq_post_chat), Rsp("text/event-stream", b)) : b \in StreamBodies}

InitStream ==
  /\ \E fl \in StreamFlows : flows = [f \in Flows |-> IF f = 1 THEN fl ELSE NewFlow]
  /\ events_file = <<>>
  /\ event_queue = <<>>
  /\ viewers = NoViewers
  /\ history = NoHistory
  /\ loaded = NotLoaded

NextStream == \E f \in Flows : OnChunk(f, 1..MaxChunk)

SpecStream == InitStream /\ [][NextStream]_vars

(***************************************************************************)
(* The timings of the response handler: exchanges whose three timestamps   *)
(* are each a time, zero or missing.                                       *)
(***************************************************************************)
TimingStarts == {JNum(10), JNum(0), JNull}
TimingHeaders == {JNum(12), JNum(0), JNull}
TimingEnds == {JNum(16), JNum(12), JNum(11), JNum(0), JNull}
TimingRequests == {[Rq_post_fim EXCEPT !.ts = t] : t \in TimingStarts}
TimingBodies ==
  {Rsp_json, Rsp_plain, Rsp_stream,
   Rsp("application/json", Bytes(Rs(Absent, Absent))),
   Rsp("application/json", Bytes(EmptyDict))}
TimingResponses == {[rs EXCEPT !.ts = t] : rs \in TimingBodies, t \in TimingHeaders}
TimingFlows == {Delivered(Answered(Started(rq), rs)) : rq \in TimingRequests, rs \in TimingResponses}

InitTiming ==
  /\ \E fl \in TimingFlows : flows = [f \in Flows |-> IF f = 1 THEN fl ELSE NewFlow]
  /\ events_file = <<>>
  /\ event_queue = <<>>
  /\ viewers = NoViewers
  /\ history = NoHistory
  /\ loaded = NotLoaded

NextTiming == \E f \in Flows : Response(f, TimingEnds)

SpecTiming == InitTiming /\ [][NextTiming]_vars

(***************************************************************************)
(* The summaries of the response handler: exchanges whose bodies have the  *)
(* fields the summarizers know, with texts below, at and above the length  *)
(* they cut at, and values of other types in their place.                  *)
(***************************************************************************)
SummaryRequests ==
  {Rq("api.githubcopilot.com", "POST", P_chat, "application/json", Bytes(v)) :
     v \in SummaryRequestValues}
SummaryResponses == {Rsp("application/json", Bytes(v)) : v \in SummaryResponseValues}
SummaryFlows ==
  {Delivered(Answered(Started(rq), rs)) : rq \in SummaryRequests, rs \in SummaryResponses}
SummaryEnds == {JNum(16), JNum(12), JNull}

InitSummary ==
  /\ \E fl \in SummaryFlows : flows = [f \in Flows |-> IF f = 1 THEN fl ELSE NewFlow]
  /\ events_file = <<>>
  /\ event_queue = <<>>
  /\ viewers = NoViewers
  /\ history = NoHistory
  /\ loaded = NotLoaded

NextSummary == \E f \in Flows : Response(f, SummaryEnds)

SpecSummary == InitSummary /\ [][NextSummary]_vars

(***************************************************************************)
(* The aggregation of streams in which the role and the finish_reason are  *)
(* reported more than once.                                                *)
(***************************************************************************)
LatchStreams ==
  {Rsp("text/event-stream", SseBody(t)) :
     t \in SeqsUpTo({JsonText(v) : v \in LatchFragValues}, MaxFrags)}
LatchFlows == {Delivered(Answered(Started(Rq_post_nobody), rs)) : rs \in LatchStreams}

InitLatch ==
  /\ \E fl \in LatchFlows : flows = [f \in Flows |-> IF f = 1 THEN fl ELSE NewFlow]
  /\ events_file = <<>>
  /\ event_queue = <<>>
  /\ viewers = NoViewers
  /\ history = NoHistory
  /\ loaded = NotLoaded

NextLatch == \E f \in Flows : Response(f, RespEnds)

SpecLatch == InitLatch /\ [][NextLatch]_vars

(***************************************************************************)
(* The live feed: two exchanges at the end of their responses, and two     *)
(* viewers that come and go.                                               *)
(***************************************************************************)
FeedFlows ==
  {Delivered(Answered(Started(rq), rs)) :
     rq \in {Rq_post_fim, Rq_get}, rs \in {Rsp_json, Rsp_stream, Rsp_nullcount}}

InitFeed ==
  /\ flows \in [Flows -> FeedFlows]
  /\ events_file = <<>>
  /\ event_queue = <<>>
  /\ viewers = NoViewers
  /\ history = NoHistory
  /\ loaded = NotLoaded

NextFeed ==
  \/ \E f \in Flows : Response(f, {JNum(16)})
  \/ \E v \in Viewers :
       \/ Connect(v)
       \/ Poll(v)
       \/ Disconnect(v)

SpecFeed == InitFeed /\ [][NextFeed]_vars

(***************************************************************************)
(* The history query: events.jsonl holds any lines, as bytes.              *)
(***************************************************************************)
MaxHistoryLines == 3

HistoryLines ==
  {Bytes(EmptyDict) \o <<"\n">>,
   Bytes(Rs_nochoices) \o <<"\r", "\n">>,
   <<" ">> \o Bytes(Fr_num) \o <<"\n">>,
   <<"\n">>,
   <<" ", "\t", "\n">>,
   B_notjson \o <<"\n">>,
   B_badutf8 \o <<"\n">>}
HistoryFiles == SeqsUpTo(HistoryLines, MaxHistoryLines)

InitHistory ==
  /\ flows = [f \in Flows |-> NewFlow]
  /\ events_file \in HistoryFiles
  /\ event_queue = <<>>
  /\ viewers = NoViewers
  /\ history = NoHistory
  /\ loaded = NotLoaded

NextHistory == GetHistory

SpecHistory == InitHistory /\ [][NextHistory]_vars

(***************************************************************************)
(* The aggregation of streams whose fragments decide the shape late or     *)
(* never, and carry fields and usage counters in several fragments.        *)
(***************************************************************************)
AggStreams ==
  {Rsp("text/event-stream", SseBody(t)) :
     t \in SeqsUpTo({JsonText(v) : v \in AggFragValues}, MaxFrags)}
AggFlows == {Delivered(Answered(Started(Rq_post_nobody), rs)) : rs \in AggStreams}

InitAgg ==
  /\ \E fl \in AggFlows : flows = [f \in Flows |-> IF f = 1 THEN fl ELSE NewFlow]
  /\ events_file = <<>>
  /\ event_queue = <<>>
  /\ viewers = NoViewers
  /\ history = NoHistory
  /\ loaded = NotLoaded

NextAgg == \E f \in Flows : Response(f, {JNum(16)})

SpecAgg == InitAgg /\ [][NextAgg]_vars

(***************************************************************************)
(* The analyzer's read-back: events.jsonl holds records with and without an*)
(* end time, and lines that are blank or not records.                      *)
(***************************************************************************)
AnalyzerLines ==
  {Bytes(Ev_early) \o <<"\n">>,
   Bytes(Ev_late) \o <<"\n">>,
   Bytes(Ev_nullend) \o <<"\n">>,
   Bytes(EmptyDict) \o <<"\n">>,
   <<" ">> \o Bytes(Fr_num) \o <<"\n">>,
   <<"\n">>,
   B_notjson \o <<"\n">>,
   B_badutf8 \o <<"\n">>}
AnalyzerFiles == SeqsUpTo(AnalyzerLines, MaxHistoryLines)

InitAnalyzer ==
  /\ flows = [f \in Flows |-> NewFlow]
  /\ events_file \in AnalyzerFiles
  /\ event_queue = <<>>
  /\ viewers = NoViewers
  /\ history = NoHistory
  /\ loaded = NotLoaded

NextAnalyzer == LoadEvents

SpecAnalyzer == InitAnalyzer /\ [][NextAnalyzer]_vars

(***************************************************************************)
(* Properties                                                              *)
(***************************************************************************)
\* the records emitted so far are the lines of the file, and the live feed
\* was handed the same ones
Emitted == {events_file[i] : i \in DOMAIN events_file}

\* C1: whatever bytes the consumer is called with, the zero-length delivery
\* that ends the stream included, it returns exactly those bytes to the
\* transport, in both versions of the addon.
C1_PassThrough ==
  \A f \in Flows :
    flows[f].calls = 1 =>
      /\ flows[f].returned = flows[f].chunk
      /\ flows[f].returned_v1 = flows[f].chunk

\* a chunk that does not survive decoding (it holds a byte that is not
\* UTF-8) has gone through the consumer and come back as it was
C1_Witness ==
  \E f \in Flows :
    /\ flows[f].calls = 1
    /\ flows[f].chunk # <<>>
    /\ ~Utf8Valid(flows[f].chunk)
    /\ flows[f].metadata["sse_bytes"] > 0
    /\ flows[f].returned = flows[f].chunk

\* C2: every exchange whose response the collaborator reports complete has
\* emitted exactly one record, one line of the file and one hand-off to the
\* live feed, and an abandoned exchange has emitted none.
C2_OneRecordPerCompletion ==
  /\ \A f \in Flows :
       (flows[f].phase = "done" /\ Observed(flows[f])) => flows[f].out = "record"
  /\ \A f \in Flows : flows[f].phase = "abandoned" => flows[f].out = "none"
  /\ Len(events_file) = Cardinality({f \in Flows : flows[f].out = "record"})
  /\ Len(event_queue) = Len(events_file)

\* the fragments of a flow's whole body, had it gone through the consumer
\* as one chunk
WholeBodyFragments(fl) ==
  Delivered([fl EXCEPT !.metadata = [@ EXCEPT !["sse_bytes"] = 0,
                                               !["sse_chunks"] = <<>>,
                                               !["sse_buffer"] = <<>>],
                       !.sent = 0, !.eos = FALSE]).metadata["sse_chunks"]

\* C3: however the body of a stream was cut into chunks, once the end of
\* the stream is delivered the fragments extracted are the same list, that
\* of the body delivered as one chunk.
C3_CutInsensitive ==
  \A f \in Flows :
    flows[f].eos => flows[f].metadata["sse_chunks"] = WholeBodyFragments(flows[f])

\* C4: the aggregation of the fragments of a stream never raises, and the
\* exchange goes on to emit its record.
C4_AggregationNeverRaises ==
  \A f \in Flows :
    (flows[f].stream /\ flows[f].eos) =>
      /\ ~IsRaise(_reconstruct_sse_response(flows[f].metadata["sse_chunks"]))
      /\ flows[f].phase = "done" => flows[f].out = "record"

\* a fragment that is not JSON, or is JSON but not an object
Skipped(chunk_str) ==
  \/ ~json_loads(chunk_str).ok
  \/ ~IsDict(json_loads(chunk_str).value)
WithoutSkipped(chunks) == SelectSeq(chunks, LAMBDA t : ~Skipped(t))

\* C5: the aggregation of a list of fragments is that of the list without
\* its fragments that are not JSON or not JSON objects.
C5_SkippedFragmentsLeaveNoTrace ==
  \A f \in Flows :
    (flows[f].stream /\ flows[f].eos) =>
      _reconstruct_sse_response(flows[f].metadata["sse_chunks"])
        = _reconstruct_sse_response(WithoutSkipped(flows[f].metadata["sse_chunks"]))

\* a stream with a fragment that is not JSON, one that is a number and one
\* that carries content has been aggregated into a record that has the
\* content
C5_Witness ==
  \E f \in Flows :
    /\ flows[f].out = "record"
    /\ flows[f].stream
    /\ \E i, j, n \in DOMAIN flows[f].metadata["sse_chunks"] :
         /\ flows[f].metadata["sse_chunks"][i] = B_notjson
         /\ flows[f].metadata["sse_chunks"][j] = JsonText(Fr_num)
         /\ flows[f].metadata["sse_chunks"][n] = JsonText(Fr_hi)
    /\ flows[f].rec.resp_json.d["choices"].l[1].d["message"].d["content"]
         = JStr(S_Hi \o S_dots)

\* a body that is not a JSON object: it does not decode, or does not parse,
\* or parses to something else
NotAnObject(raw) ==
  /\ raw # <<>>
  /\ \/ ~Utf8Valid(raw)
     \/ ~json_loads(Utf8Replace(raw)).ok
     \/ ~IsDict(json_loads(Utf8Replace(raw)).value)

\* the sentinel of line 50, wherever a model name was written into it or not
IsSentinel(j) ==
  /\ IsDict(j)
  /\ Has(j, "error") /\ j.d["error"] = JStr(S_invalid_json)
  /\ Has(j, "content") /\ IsStr(j.d["content"])

\* C6: when a body declared as JSON is not a JSON object, the exchange
\* still emits its record, and the record has the sentinel error object in
\* the body's place.
C6_SentinelForBadBody ==
  \A f \in Flows :
    (flows[f].phase = "done" /\ Observed(flows[f])) =>
      /\ (declares_json(flows[f].req_ct) /\ NotAnObject(flows[f].req_raw)) =>
           (flows[f].out = "record" /\ IsSentinel(flows[f].rec.req_json))
      /\ (~flows[f].stream /\ declares_json(flows[f].resp_ct)
            /\ NotAnObject(flows[f].resp_raw)) =>
           (flows[f].out = "record" /\ IsSentinel(flows[f].rec.resp_json))

\* the count a usage object states under key, zero if it states none
Count(usage, key) ==
  IF Has(usage, key) /\ IsNum(usage.d[key]) THEN usage.d[key].n ELSE 0

\* C7: in every emitted record with a resp_json, the usage object's
\* total_tokens is the sum of its prompt_tokens, completion_tokens and
\* reasoning_tokens, each counted as zero where it is absent; a total the
\* response stated is not kept.
C7_TotalIsSum ==
  \A rec \in Emitted :
    ~IsNone(rec.resp_json) =>
      /\ Has(rec.resp_json, "usage")
      /\ Has(rec.resp_json.d["usage"], "total_tokens")
      /\ rec.resp_json.d["usage"].d["total_tokens"]
           = JNum(Count(rec.resp_json.d["usage"], "prompt_tokens")
                    + Count(rec.resp_json.d["usage"], "completion_tokens")
                    + Count(rec.resp_json.d["usage"], "reasoning_tokens"))

\* a response that states 3 prompt tokens, 2 completion tokens, no
\* reasoning tokens and a total of 99 has been recorded with a total of 5
C7_Witness ==
  \E f \in Flows :
    /\ flows[f].out = "record"
    /\ flows[f].resp_raw =
         Bytes(Rs(Absent, O3("prompt_tokens", JNum(3), "completion_tokens", JNum(2),
                             "total_tokens", JNum(99))))
    /\ flows[f].rec \in Emitted
    /\ flows[f].rec.resp_json.d["usage"].d["total_tokens"] = JNum(5)
    /\ ~Has(flows[f].rec.resp_json.d["usage"], "reasoning_tokens")

\* C8: in every emitted record with a resp_json, the usage object carries
\* prompt_tokens, completion_tokens and total_tokens.
C8_UsageAlwaysComplete ==
  \A rec \in Emitted :
    ~IsNone(rec.resp_json) =>
      /\ Has(rec.resp_json, "usage")
      /\ IsDict(rec.resp_json.d["usage"])
      /\ Has(rec.resp_json.d["usage"], "prompt_tokens")
      /\ Has(rec.resp_json.d["usage"], "completion_tokens")
      /\ Has(rec.resp_json.d["usage"], "total_tokens")

RecordKeys ==
  {"ts_end", "method", "host", "path", "status", "ttfb_s", "latency_total_s",
   "streaming_duration_s", "req_bytes", "resp_bytes", "output_tps", "req_ct",
   "resp_ct", "req_json", "resp_json"}

\* C9: every emitted record, in the file and in the live feed, has exactly
\* the fifteen keys; what is unavailable is there as null.
C9_StableKeys ==
  /\ \A rec \in Emitted : DOMAIN rec = RecordKeys
  /\ \A i \in DOMAIN event_queue : DOMAIN event_queue[i] = RecordKeys

\* a record whose end time, latency, duration, throughput and request body
\* are all unavailable has been emitted
C9_Witness ==
  \E rec \in Emitted :
    /\ DOMAIN rec = RecordKeys
    /\ IsNone(rec.ts_end) /\ IsNone(rec.latency_total_s)
    /\ IsNone(rec.streaming_duration_s) /\ IsNone(rec.output_tps)
    /\ IsNone(rec.req_json)

\* the model a body declares: a "model" that is there and not empty
Declared(j) ==
  IF IsDict(j) /\ Has(j, "model") /\ Truthy(j.d["model"]) THEN j.d["model"] ELSE JNull

\* the path segment right after the first "engines" segment
PathModel(path) ==
  IF \E i \in 1..(Len(Split(path, "/")) - 1) :
       /\ Split(path, "/")[i] = S_engines
       /\ \A j \in 1..(i - 1) : Split(path, "/")[j] # S_engines
  THEN JStr(Split(path, "/")[1 + CHOOSE i \in 1..(Len(Split(path, "/")) - 1) :
                                   /\ Split(path, "/")[i] = S_engines
                                   /\ \A j \in 1..(i - 1) : Split(path, "/")[j] # S_engines])
  ELSE JNull

\* the model of an exchange by the order of the rule: response, request,
\* path, null
ExpectedModel(fl) ==
  IF ~IsNone(Declared(ResponseJson(Timings(fl), fl)))
  THEN Declared(ResponseJson(Timings(fl), fl))
  ELSE IF ~IsNone(Declared(RequestJson(fl))) THEN Declared(RequestJson(fl))
  ELSE PathModel(fl.path)

Carries(j, model) == IsDict(j) /\ Has(j, "model") /\ j.d["model"] = model

\* C10 as stated: the resolved model follows the order response, request,
\* path, null, and when there is one, req_json and resp_json both carry it.
C10_BothBodiesCarryModel ==
  \A f \in Flows :
    flows[f].out = "record" =>
      /\ flows[f].model = ExpectedModel(flows[f])
      /\ ~IsNone(flows[f].model) =>
           /\ Carries(flows[f].rec.req_json, flows[f].model)
           /\ Carries(flows[f].rec.resp_json, flows[f].model)

\* C10: the resolved model follows the order response, request, path,
\* null, and when there is one, each of req_json and resp_json that is not
\* null carries it.
C10_ModelResolution ==
  \A f \in Flows :
    flows[f].out = "record" =>
      /\ flows[f].model = ExpectedModel(flows[f])
      /\ ~IsNone(flows[f].model) =>
           /\ IsNone(flows[f].rec.req_json)
                \/ Carries(flows[f].rec.req_json, flows[f].model)
           /\ IsNone(flows[f].rec.resp_json)
                \/ Carries(flows[f].rec.resp_json, flows[f].model)

\* the request declares gx, the response declares nothing, and the record
\* has gx in both bodies
C10_Witness ==
  \E f \in Flows :
    /\ flows[f].out = "record"
    /\ Declared(RequestJson(flows[f])) = JStr(S_gx)
    /\ IsDict(ResponseJson(Timings(flows[f]), flows[f]))
    /\ IsNone(Declared(ResponseJson(Timings(flows[f]), flows[f])))
    /\ flows[f].model = JStr(S_gx)
    /\ Carries(flows[f].rec.req_json, JStr(S_gx))
    /\ Carries(flows[f].rec.resp_json, JStr(S_gx))

\* C11: the output_tps of a record is null when its streaming duration is
\* null or not above zero; when it is not null, the duration is above zero,
\* the usage object states the completion token count, and output_tps is
\* that count over the duration.
C11_Throughput ==
  \A f \in Flows :
    flows[f].out = "record" =>
      /\ (IsNone(flows[f].rec.streaming_duration_s)
            \/ flows[f].rec.streaming_duration_s.n <= 0) =>
           IsNone(flows[f].rec.output_tps)
      /\ ~IsNone(flows[f].rec.output_tps) =>
           /\ ~IsNone(flows[f].rec.streaming_duration_s)
           /\ flows[f].rec.streaming_duration_s.n > 0
           /\ IsDict(flows[f].rec.resp_json)
           /\ IsNum(Get(Get(flows[f].rec.resp_json, "usage"), "completion_tokens"))
           /\ flows[f].rec.output_tps =
                JFrac(flows[f].rec.resp_json.d["usage"].d["completion_tokens"].n,
                      flows[f].rec.streaming_duration_s.n)

\* a response that states 2 completion tokens and took 4 from its headers to
\* its end has been recorded with 2 over 4
C11_Witness ==
  \E f \in Flows :
    /\ flows[f].out = "record"
    /\ flows[f].resp_ts_start = JNum(12) /\ flows[f].resp_ts_end = JNum(16)
    /\ flows[f].resp_raw = Rsp_json.body
    /\ flows[f].rec.streaming_duration_s = JNum(4)
    /\ flows[f].rec.output_tps = JFrac(2, 4)

\* the request start the handler may use: the transport's, or the time the
\* addon noted at the request when the transport has none
RequestStart(fl) ==
  IF ~IsNone(fl.req_ts) THEN fl.req_ts
  ELSE IF "t_req_start_meta" \in DOMAIN fl.metadata THEN fl.metadata["t_req_start_meta"]
  ELSE JNull
\* a - b, null when one of them is missing
Difference(a, b) == IF IsNone(a) \/ IsNone(b) THEN JNull ELSE JNum(a.n - b.n)

\* C12: in every record, each timing is the difference of its two
\* timestamps, and null exactly when one of them is missing; a timestamp of
\* zero is a timestamp.
C12_TimingMetrics ==
  \A f \in Flows :
    flows[f].out = "record" =>
      /\ flows[f].rec.ttfb_s = Difference(flows[f].resp_ts_start, RequestStart(flows[f]))
      /\ flows[f].rec.latency_total_s
           = Difference(flows[f].resp_ts_end, RequestStart(flows[f]))
      /\ flows[f].rec.streaming_duration_s
           = Difference(flows[f].resp_ts_end, flows[f].resp_ts_start)

\* the bodies of an exchange as the handler parsed them
ParsedRequest(fl) == RequestJson(fl)
ParsedResponse(fl) == ResponseJson(Timings(fl), fl)

\* C13: summarizing a summary gives the summary: for the request body and
\* the response body of every exchange the handler has gone through,
\* _summarize_req_json and _summarize_resp_json applied twice give what
\* they give applied once.
C13_SummarizeIdempotent ==
  \A f \in Flows :
    flows[f].phase = "done" =>
      /\ _summarize_req_json(_summarize_req_json(ParsedRequest(flows[f])))
           = _summarize_req_json(ParsedRequest(flows[f]))
      /\ _summarize_resp_json(_summarize_resp_json(ParsedResponse(flows[f])))
           = _summarize_resp_json(ParsedResponse(flows[f]))

\* the fields whose text a summarizer may change, as paths of keys; "*" is
\* any item of a list
RequestTextPaths ==
  {<<"messages", "*", "content">>, <<"prompt">>, <<"suffix">>,
   <<"prediction", "content">>, <<"extra", "context", "*">>}
ResponseTextPaths == {<<"choices", "*", "message", "content">>, <<"choices", "*", "text">>}

\* the paths that go on below the key (or list item) x
Below(paths, x) == {Tail(q) : q \in {r \in paths : r # <<>> /\ r[1] = x}}

\* the value j with the text at each of the paths wiped out; everything else,
\* and anything at a path that is not text, is kept
RECURSIVE Masked(_, _)
Masked(j, paths) ==
  IF paths = {} THEN j
  ELSE IF <<>> \in paths THEN (IF IsStr(j) THEN JStr(<<>>) ELSE j)
  ELSE IF IsDict(j)
       THEN JDict(j.keys, [x \in DOMAIN j.d |-> Masked(j.d[x], Below(paths, x))])
  ELSE IF IsList(j)
       THEN JList([i \in 1..Len(j.l) |-> Masked(j.l[i], Below(paths, "*"))])
  ELSE j

\* C14: a summary has the keys of its input in the same order, the same
\* nesting, the same list lengths and the same value types; it differs from
\* its input in nothing but the text of messages[].content, prompt, suffix,
\* prediction.content and extra.context[] (request), and of
\* choices[].message.content and choices[].text (response).
C14_SummarizeKeepsStructure ==
  \A f \in Flows :
    flows[f].phase = "done" =>
      /\ Masked(_summarize_req_json(ParsedRequest(flows[f])), RequestTextPaths)
           = Masked(ParsedRequest(flows[f]), RequestTextPaths)
      /\ Masked(_summarize_resp_json(ParsedResponse(flows[f])), ResponseTextPaths)
           = Masked(ParsedResponse(flows[f]), ResponseTextPaths)

\* a request with a long message among items of other types, and a response
\* with a long text among choices of other types, have been summarized into
\* a record: the texts are cut, the role, the items and the keys are there
C14_Witness ==
  \E f \in Flows :
    /\ flows[f].out = "record"
    /\ ParsedRequest(flows[f]) = Rq_rich
    /\ ParsedResponse(flows[f]) = Rs_rich
    /\ flows[f].rec.req_json.d["messages"].l[1]
         = O2("role", JStr(S_user), "content", JStr(Take(S_long, TruncLen) \o S_dots))
    /\ Len(flows[f].rec.req_json.d["messages"].l) = 4
    /\ flows[f].rec.req_json.d["extra"].d["context"].l[2] = JStr(S_exact)
    /\ flows[f].rec.resp_json.d["choices"].l[2].d["text"]
         = JStr(Take(S_long, TruncLen) \o S_dots)
    /\ Len(flows[f].rec.resp_json.d["choices"].l) = 5

\* the first choice of a fragment, null if the fragment has none
FirstChoice(data) ==
  IF IsDict(data) /\ IsList(Get(data, "choices")) /\ Truthy(Get(data, "choices"))
  THEN data.d["choices"].l[1]
  ELSE JNull
FirstChoiceOf(chunk_str) ==
  IF json_loads(chunk_str).ok THEN FirstChoice(json_loads(chunk_str).value) ELSE JNull

\* what the first choice of a fragment reports as finish_reason, and what its
\* delta reports as role; null if it reports none
ReportedStop(choice) == IF IsDict(choice) THEN Get(choice, "finish_reason") ELSE JNull
ReportedRole(choice) ==
  IF IsDict(choice) /\ IsDict(Get(choice, "delta")) THEN Get(choice.d["delta"], "role")
  ELSE JNull

\* the first value of a list that is not null, null if there is none
FirstNonNull(values) ==
  IF SelectSeq(values, LAMBDA v : ~IsNone(v)) = <<>> THEN JNull
  ELSE SelectSeq(values, LAMBDA v : ~IsNone(v))[1]
FirstStop(chunks) ==
  FirstNonNull([i \in 1..Len(chunks) |-> ReportedStop(FirstChoiceOf(chunks[i]))])
FirstRole(chunks) ==
  FirstNonNull([i \in 1..Len(chunks) |-> ReportedRole(FirstChoiceOf(chunks[i]))])

\* C19: the finish_reason of the aggregated response of a recorded stream is
\* that of the first fragment, in the order of delivery, whose first choice
\* reports one that is not null; a later fragment does not replace it.
C19_StopReasonLatched ==
  \A f \in Flows :
    (flows[f].stream /\ flows[f].out = "record") =>
      flows[f].rec.resp_json.d["choices"].l[1].d["finish_reason"]
        = FirstStop(flows[f].metadata["sse_chunks"])

\* C20: the role of the aggregated response of a recorded stream of deltas
\* is the first role, in the order of delivery, that a delta reports and
\* that is not null; a later fragment does not replace it.
C20_RoleLatched ==
  \A f \in Flows :
    (/\ flows[f].stream /\ flows[f].out = "record"
     /\ flows[f].rec.resp_json.d["object"] = JStr(S_chat_aggregated)) =>
      flows[f].rec.resp_json.d["choices"].l[1].d["message"].d["role"]
        = FirstRole(flows[f].metadata["sse_chunks"])

C16_EveryViewerReceives ==
  [][Len(event_queue') < Len(event_queue) =>
       \A v \in Viewers :
         viewers[v].state = "open" =>
           viewers'[v].sent = Append(viewers[v].sent, Head(event_queue))]_vars

\* the lines of events.jsonl that parse as JSON, parsed, in the order of the
\* file; a line that is not UTF-8 does not parse
WellFormed(line) ==
  /\ Utf8Valid(line)
  /\ Strip(Utf8Replace(line)) # <<>>
  /\ json_loads(Strip(Utf8Replace(line))).ok
RecordsOf(file) ==
  [i \in 1..Len(SelectSeq(file, WellFormed)) |->
     json_loads(Strip(Utf8Replace(SelectSeq(file, WellFormed)[i]))).value]

\* C17: whatever lines the file holds, well-formed, blank or malformed, the
\* history query succeeds and returns the records of its well-formed lines,
\* in the order of the file.
C17_HistorySkipsBadLines ==
  history # NoHistory =>
    /\ history.status = 200
    /\ history.events = RecordsOf(events_file)

\* the request and the response of an exchange, as the transport gave them
RequestOf(fl) ==
  [host |-> fl.host, method |-> fl.method, path |-> fl.path, ct |-> fl.req_ct,
   raw |-> fl.req_raw, ts |-> fl.req_ts, now |-> fl.metadata["t_req_start_meta"].n]
ResponseOf(fl) ==
  [ct |-> fl.resp_ct, status |-> fl.status, ts |-> fl.resp_ts_start, body |-> fl.body]

\* what the handlers make of the exchange of fl when it is the only one:
\* request, headers, the body, the end
Alone(fl) ==
  BuildRecord(Completed(Delivered(Answered(Started(RequestOf(fl)), ResponseOf(fl))),
                        fl.resp_ts_end))

\* C18: a callback of one exchange changes nothing of the other exchange
\* (its pending line, its fragments, its byte count and the rest of its
\* flow), and the record of an exchange is the record the handlers emit for
\* it when it is the only exchange.
C18_ExchangesIndependent ==
  [][\A f \in Flows :
       flows'[f] # flows[f] =>
         /\ \A g \in Flows \ {f} : flows'[g] = flows[g]
         /\ flows'[f].out = "record" =>
              /\ Alone(flows'[f]).exc = ""
              /\ flows'[f].rec = Alone(flows'[f]).rec]_vars

\* the record of a stream has been emitted while the other exchange is in
\* the middle of its stream, a line pending
C18_Witness ==
  \E f, g \in Flows :
    /\ f # g
    /\ flows[f].out = "record" /\ flows[f].stream
    /\ flows[f].rec = Alone(flows[f]).rec
    /\ flows[g].phase = "headers" /\ flows[g].stream /\ ~flows[g].eos
    /\ flows[g].metadata["sse_bytes"] > 0
    /\ flows[g].metadata["sse_buffer"] # <<>>

\* the shape a fragment decides when none is decided yet: "chat" if its first
\* choice is a non-empty object with a delta field, "completion" if it has no
\* delta but a text field, "None" otherwise
ShapeOfChoice(choice) ==
  IF ~IsDict(choice) \/ choice.keys = <<>> THEN "None"
  ELSE IF Has(choice, "delta") THEN "chat"
  ELSE IF Has(choice, "text") THEN "completion"
  ELSE "None"
ShapeOf(chunk_str) == ShapeOfChoice(FirstChoiceOf(chunk_str))

\* the shape decided by the first fragment, in the order of delivery, that
\* decides one
DecidingShapes(chunks) ==
  SelectSeq([i \in 1..Len(chunks) |-> ShapeOf(chunks[i])], LAMBDA t : t # "None")
ExpectedShape(chunks) ==
  IF DecidingShapes(chunks) = <<>> THEN "None" ELSE DecidingShapes(chunks)[1]

\* the shape tag of the aggregation after the first i fragments
TagAfter(chunks, i) == SseLoop(SseInit, SubSeq(chunks, 1, i), 1).model_type

\* the discriminator of a shape
Discriminator(shape) ==
  IF shape = "chat" THEN S_chat_aggregated
  ELSE IF shape = "completion" THEN S_text_aggregated
  ELSE S_unknown_aggregated

\* C21: after every prefix of the fragments of a stream the shape tag is the
\* one decided by the first fragment of the prefix that decides one, unset
\* if there is none: it is decided at most once, a later fragment of another
\* shape does not change it, and the recorded response carries its
\* discriminator.
C21_ShapeDecidedOnce ==
  \A f \in Flows :
    (flows[f].stream /\ flows[f].out = "record") =>
      /\ \A i \in 0..Len(flows[f].metadata["sse_chunks"]) :
           TagAfter(flows[f].metadata["sse_chunks"], i)
             = ExpectedShape(SubSeq(flows[f].metadata["sse_chunks"], 1, i))
      /\ flows[f].rec.resp_json.d["object"]
           = JStr(Discriminator(ExpectedShape(flows[f].metadata["sse_chunks"])))

\* a recorded stream whose first fragment has a choice with neither field,
\* whose second decides the text shape and whose third is a delta
C21_Witness ==
  \E f \in Flows :
    /\ flows[f].stream /\ flows[f].out = "record"
    /\ flows[f].metadata["sse_chunks"]
         = <<JsonText(Fr_bare), JsonText(Fr_text), JsonText(Fr_hi)>>
    /\ flows[f].rec.resp_json.d["object"] = JStr(S_text_aggregated)

\* what a fragment contributes to the content under a shape: the content of
\* the delta of its first choice, or the text of its first choice, when that
\* is a string
TextAt(x, key) == IF IsDict(x) /\ IsStr(Get(x, key)) THEN Get(x, key).s ELSE <<>>
ContributionOf(shape, choice) ==
  IF shape = "chat" THEN TextAt(IF IsDict(choice) THEN Get(choice, "delta") ELSE JNull, "content")
  ELSE IF shape = "completion" THEN TextAt(choice, "text")
  ELSE <<>>
ExpectedContentUnder(shape, chunks) ==
  Flatten([i \in 1..Len(chunks) |-> ContributionOf(shape, FirstChoiceOf(chunks[i]))])
ExpectedContent(chunks) == ExpectedContentUnder(ExpectedShape(chunks), chunks)

\* the content of an aggregated response
ContentOfChoice(choice) ==
  IF Has(choice, "text") THEN choice.d["text"] ELSE choice.d["message"].d["content"]
ContentOf(resp) == ContentOfChoice(resp.d["choices"].l[1])

\* C22: the content of the aggregated response of a recorded stream is the
\* concatenation, in the order of delivery, of what each fragment contributes
\* under the decided shape, and the record carries its summary.
C22_ContentIsConcatenation ==
  \A f \in Flows :
    (flows[f].stream /\ flows[f].out = "record") =>
      /\ ContentOf(_reconstruct_sse_response(flows[f].metadata["sse_chunks"]))
           = JStr(ExpectedContent(flows[f].metadata["sse_chunks"]))
      /\ ExpectedShape(flows[f].metadata["sse_chunks"]) # "None" =>
           ContentOf(flows[f].rec.resp_json)
             = JStr(Truncated(ExpectedContent(flows[f].metadata["sse_chunks"])))

\* a recorded stream of a delta, a fragment with both fields and a text
\* fragment: the deltas are concatenated, the text fragment adds nothing
C22_Witness ==
  \E f \in Flows :
    /\ flows[f].stream /\ flows[f].out = "record"
    /\ flows[f].metadata["sse_chunks"]
         = <<JsonText(Fr_hi), JsonText(Fr_mixed), JsonText(Fr_text)>>
    /\ ContentOf(_reconstruct_sse_response(flows[f].metadata["sse_chunks"]))
         = JStr(<<"H", "i", "x">>)

\* the fragments of a stream that are JSON objects, in the order of delivery
FragmentObjects(chunks) ==
  SelectSeq([i \in 1..Len(chunks) |->
               IF json_loads(chunks[i]).ok THEN json_loads(chunks[i]).value ELSE JNull],
            IsDict)

\* the objects of a list that have a key, and the value of the last of them
Holding(objects, key) == SelectSeq(objects, LAMBDA d : Has(d, key))
LastOf(objects, key) == Holding(objects, key)[Len(Holding(objects, key))].d[key]

\* the usage objects of the fragments of a stream
UsageObjects(chunks) ==
  SelectSeq([i \in 1..Len(Holding(FragmentObjects(chunks), "usage")) |->
               Holding(FragmentObjects(chunks), "usage")[i].d["usage"]],
            IsDict)

\* the top-level keys of a fragment other than choices and usage, and the
\* counters of a usage object
FieldKeys == {"id", "object", "model", "created"}
CounterKeys == {"prompt_tokens", "completion_tokens", "reasoning_tokens", "total_tokens"}

\* the response carries, for each of the keys, the value of the last object
\* that has it
CarriesLast(resp, objects, keys) ==
  \A key \in keys :
    Holding(objects, key) # <<>> => Has(resp, key) /\ resp.d[key] = LastOf(objects, key)

\* C23 as stated: every top-level key of the fragments other than choices
\* and usage has, in the aggregated response, the value of the last fragment
\* that contains it, and every usage counter the value of the last usage
\* object that states it.
C23_MetadataMergeAllKeys ==
  \A f \in Flows :
    (flows[f].stream /\ flows[f].out = "record") =>
      /\ CarriesLast(_reconstruct_sse_response(flows[f].metadata["sse_chunks"]),
                     FragmentObjects(flows[f].metadata["sse_chunks"]), FieldKeys)
      /\ UsageObjects(flows[f].metadata["sse_chunks"]) # <<>> =>
           CarriesLast(Get(_reconstruct_sse_response(flows[f].metadata["sse_chunks"]), "usage"),
                       UsageObjects(flows[f].metadata["sse_chunks"]), CounterKeys)

\* C23, amended: the same for every top-level key other than choices, usage
\* and object, the key that holds the discriminator of the aggregation.
C23_MetadataMerge ==
  \A f \in Flows :
    (flows[f].stream /\ flows[f].out = "record") =>
      /\ CarriesLast(_reconstruct_sse_response(flows[f].metadata["sse_chunks"]),
                     FragmentObjects(flows[f].metadata["sse_chunks"]), FieldKeys \ {"object"})
      /\ UsageObjects(flows[f].metadata["sse_chunks"]) # <<>> =>
           CarriesLast(Get(_reconstruct_sse_response(flows[f].metadata["sse_chunks"]), "usage"),
                       UsageObjects(flows[f].metadata["sse_chunks"]), CounterKeys)

\* a recorded stream of two fragments that both state an id and a total, the
\* first alone a prompt count, the second alone a completion count
C23_Witness ==
  \E f \in Flows :
    /\ flows[f].stream /\ flows[f].out = "record"
    /\ flows[f].metadata["sse_chunks"] = <<JsonText(Fr_meta), JsonText(Fr_meta2)>>
    /\ _reconstruct_sse_response(flows[f].metadata["sse_chunks"]).d["id"] = JStr(<<"b">>)
    /\ _reconstruct_sse_response(flows[f].metadata["sse_chunks"]).d["usage"]
         = O3("prompt_tokens", JNum(3), "total_tokens", JNum(5), "completion_tokens", JNum(2))

\* the top-level keys, other than choices, of the fragments of a stream
CollectedKeys(objects) ==
  UNION {{objects[i].keys[n] : n \in 1..Len(objects[i].keys)} : i \in 1..Len(objects)}
    \ {"choices"}

\* the response of a stream no fragment of which decides a shape
Unrecognized(resp, objects) ==
  /\ resp.d["object"] = JStr(S_unknown_aggregated)
  /\ resp.d["choices"].l[1].d["message"].d["content"] = JStr(<<>>)
  /\ \A key \in CollectedKeys(objects) : Has(resp, key)
  /\ \A key \in CollectedKeys(objects) \ {"object", "usage"} :
       resp.d[key] = LastOf(objects, key)

\* C24: a stream none of whose fragments decides a shape, once complete,
\* has an aggregated response, and that response has the unknown-shape
\* discriminator, the empty string as content and every key collected from
\* the fragments.
C24_UnrecognizedResult ==
  \A f \in Flows :
    (/\ flows[f].stream /\ flows[f].phase = "done"
     /\ ExpectedShape(flows[f].metadata["sse_chunks"]) = "None") =>
      /\ ~IsRaise(_reconstruct_sse_response(flows[f].metadata["sse_chunks"]))
      /\ Unrecognized(_reconstruct_sse_response(flows[f].metadata["sse_chunks"]),
                      FragmentObjects(flows[f].metadata["sse_chunks"]))

\* C25: the fragments a stream has once the zero-length delivery has come
\* are those it would have had the pending line been followed by a newline
\* instead: the flush reads the pending line as a complete line is read.
C25_FlushAsCompleteLine ==
  [][\A f \in Flows :
       (flows[f].stream /\ ~flows[f].eos /\ flows'[f].eos) =>
         flows'[f].metadata["sse_chunks"]
           = on_chunk(flows[f].metadata, <<"\n">>)["sse_chunks"]]_vars

\* the count a usage object states under a key, null if it states none
Stated(resp, key) ==
  IF IsDict(resp) /\ IsDict(Get(resp, "usage")) THEN Get(resp.d["usage"], key) ELSE JNull

\* the text of the first choice of a response: its text, or else the content
\* of its message
TextOfChoice(choice) ==
  IF ~IsDict(choice) THEN <<>>
  ELSE IF IsStr(Get(choice, "text")) THEN choice.d["text"].s
  ELSE IF IsDict(Get(choice, "message")) /\ IsStr(Get(choice.d["message"], "content"))
       THEN choice.d["message"].d["content"].s
  ELSE <<>>

\* n / 4 rounded to the nearest integer, a half to the even one
Quarter(n) ==
  CHOOSE q \in 0..n :
    \/ 4 * q - n < 2 /\ n - 4 * q < 2
    \/ (4 * q - n = 2 \/ n - 4 * q = 2) /\ q % 2 = 0

\* the completion count of a response: the one its usage states, or else the
\* estimate from the text of its first choice, or else null
ExpectedCompletionOf(resp, text) ==
  IF ~IsNone(Stated(resp, "completion_tokens")) THEN Stated(resp, "completion_tokens")
  ELSE IF text # <<>> THEN JNum(Quarter(Len(text)))
  ELSE JNull
ExpectedCompletion(resp) == ExpectedCompletionOf(resp, TextOfChoice(FirstChoice(resp)))

\* a count over a duration, null if there is no count
Rate(count, duration) == IF IsNone(count) THEN JNull ELSE JFrac(count.n, duration.n)

\* C26: the output_tps of a record whose streaming duration is above zero is
\* the completion count of the response over that duration, the count being
\* the one the response's usage states or, when it states none, the estimate
\* from the text of the first choice; it is null when there is neither.
C26_CompletionCount ==
  \A f \in Flows :
    (/\ flows[f].out = "record"
     /\ IsNum(flows[f].rec.streaming_duration_s)
     /\ flows[f].rec.streaming_duration_s.n > 0) =>
      flows[f].rec.output_tps
        = Rate(ExpectedCompletion(ParsedResponse(flows[f])), flows[f].rec.streaming_duration_s)

\* a recorded stream that states 2 completion tokens and whose text, two
\* characters long, would be estimated at none
C26_Witness ==
  \E f \in Flows :
    /\ flows[f].out = "record" /\ flows[f].stream
    /\ flows[f].metadata["sse_chunks"] = <<JsonText(Fr_text), JsonText(Fr_usage)>>
    /\ flows[f].rec.streaming_duration_s = JNum(4)
    /\ flows[f].rec.output_tps = JFrac(2, 4)

\* the input-length hints of a request: the counts its extra block declares
Hint(req, key) ==
  IF IsDict(req) /\ IsDict(Get(req, "extra")) /\ IsNum(Get(req.d["extra"], key))
  THEN req.d["extra"].d[key].n
  ELSE 0
HasHint(req) ==
  IsDict(req) /\ IsDict(Get(req, "extra"))
    /\ (IsNum(Get(req.d["extra"], "prompt_tokens")) \/ IsNum(Get(req.d["extra"], "suffix_tokens")))

\* the prompt count of an exchange: the one the response's usage states, or
\* else the sum of the request's hints when it has one and the sum is
\* positive, or else null
ExpectedPrompt(req, resp) ==
  IF ~IsNone(Stated(resp, "prompt_tokens")) THEN Stated(resp, "prompt_tokens")
  ELSE IF HasHint(req) /\ Hint(req, "prompt_tokens") + Hint(req, "suffix_tokens") > 0
       THEN JNum(Hint(req, "prompt_tokens") + Hint(req, "suffix_tokens"))
  ELSE JNull

\* the handler's local variables after line 358
AfterUsageCounts(fl) == UsageCounts(PromptHints(Bodies(Timings(fl), fl)))

\* C27: when the handler has read the usage of the response of a completed
\* exchange, its prompt count is the one the response states or, when the
\* response states none, the sum of the request's hints; a usage that states
\* no prompt count does not erase the count taken from the hints.
C27_PromptCount ==
  \A f \in Flows :
    (/\ flows[f].phase = "done" /\ Observed(flows[f])
     /\ AfterUsageCounts(flows[f]).exc = "") =>
      AfterUsageCounts(flows[f]).prompt_tokens
        = ExpectedPrompt(ParsedRequest(flows[f]), ParsedResponse(flows[f]))

\* how often a value is in a list
Occurrences(seq, v) == Cardinality({i \in DOMAIN seq : seq[i] = v})

\* the end time of a record, if it has one
EndTime(x) == IF IsDict(x) THEN Get(x, "ts_end") ELSE JNull

\* the events are the records, each as often, the most recent first
MostRecentFirst(events, records) ==
  /\ Len(events) = Len(records)
  /\ \A i \in DOMAIN records : Occurrences(events, records[i]) = Occurrences(records, records[i])
  /\ \A i, j \in DOMAIN events :
       (i < j /\ IsNum(EndTime(events[i])) /\ IsNum(EndTime(events[j]))) =>
         EndTime(events[i]).n >= EndTime(events[j]).n

\* C28: whatever lines the file holds, well-formed, blank or malformed, the
\* analyzer's load_events succeeds and returns the records of its
\* well-formed lines, the most recent first.
C28_LoadSkipsBadLines ==
  loaded # NotLoaded =>
    /\ loaded.exc = ""
    /\ MostRecentFirst(loaded.events, RecordsOf(events_file))

\* an exchange the addon is to leave alone: its host is not one of the
\* allowed hosts, or its method is GET
Filtered(fl) == fl.host \notin ALLOWED_HOSTS \/ fl.method = "GET"

\* the exchanges that have emitted a record
Recorded == {f \in Flows : flows[f].out = "record"}

\* C29: an exchange whose host is not allowed or whose method is GET has, at
\* every point of its lifecycle, no request-start mark, no stream state and
\* no consumer, and has emitted nothing: the file and the queue hold the
\* records of the other exchanges only.
C29_FilteredExchangesUntouched ==
  /\ \A f \in Flows :
       (flows[f].phase # "new" /\ Filtered(flows[f])) =>
         /\ flows[f].metadata = NoMetadata
         /\ ~flows[f].stream
         /\ flows[f].calls = 0
         /\ flows[f].out = "none" /\ flows[f].rec = JNull
  /\ Len(events_file) = Cardinality({f \in Recorded : ~Filtered(flows[f])})
  /\ Len(event_queue) = Len(events_file)
  /\ \A i \in DOMAIN events_file :
       events_file[i].host \in ALLOWED_HOSTS /\ events_file[i].method # "GET"

\* a GET exchange with a streamed response and an exchange with another host
\* have both gone through their whole lifecycle
C29_Witness ==
  \E f, g \in Flows :
    /\ flows[f].phase = "done" /\ flows[f].method = "GET"
    /\ flows[f].host \in ALLOWED_HOSTS /\ flows[f].resp_ct = "text/event-stream"
    /\ flows[g].phase = "done" /\ flows[g].host \notin ALLOWED_HOSTS
    /\ flows[g].method = "POST"
    /\ events_file = <<>>

====
